---- MODULE Spec2Model ----
(***************************************************************************)
(* Verification model of the P2P file sharing system:                      *)
(*   tracker/tracker.py   - file index, peer registry, connection handlers *)
(*   peer/storage.py      - chunk store (StorageManager)                   *)
(*   peer/file_utils.py   - hashing, chunking, reassembly                  *)
(*   peer/reputation.py   - reputation store                               *)
(*   peer/network_utils.py, peer/peer.py - chunk protocol and downloader   *)
(*                                                                         *)
(* The specifications share the variables:                                 *)
(*   SpecTracker    - concurrent connection handlers of the tracker        *)
(*   SpecTrackerSeq - the tracker's handlers run one after the other       *)
(*   SpecStore      - the StorageManager API with restarts                 *)
(*   SpecDownload   - Peer.download_file against a swarm                   *)
(*   SpecReputation - the ReputationManager API                            *)
(*   SpecFraming    - one chunk reply over a TCP connection                *)
(*   SpecSplit      - file_utils: analyze, split, reassemble               *)
(*   SpecReputationConc - update_reputation called from several threads    *)
(*   SpecPeerApi    - download_file and register_with_tracker of one peer  *)
(*   SpecStream     - the header loop of request_chunk_from_peer           *)
(*   SpecControl    - the peer's persistent tracker connection             *)
(*   SpecSharedSocket - several threads using the tracker connection       *)
(*   SpecTrackerFraming - the tracker's reads of a request stream          *)
(*   SpecLocks      - the tracker's handlers acquiring its two mutexes     *)
(*   SpecStoreCrash - the StorageManager killed inside a metadata save     *)
(*   SpecChunkReply - request_chunk_from_peer against any success reply    *)
(*   SpecSelfDownload - a peer that shares a file and downloads it         *)
(***************************************************************************)
EXTENDS Integers, Sequences, FiniteSets, TLC

(***************************************************************************)
(* Bounds of the model                                                     *)
(***************************************************************************)
\* longest file, in bytes
MaxFileLen == 2
\* largest chunk index handed to store_chunk through the API
MaxChunkIndex == 2
\* longest files list of one register message
MaxFilesPerMsg == 2
\* number of IOErrors (failed chunk or metadata writes) of one run
MaxIOErrors == 1
\* number of download_file calls of one run
MaxDownloads == 2
\* number of update_reputation calls of one run of the reputation store
MaxEvents == 3
\* longest chunk payload sent over a chunk connection, in bytes
MaxWireLen == 2
\* longest file handed to split_file and get_file_metadata directly, in bytes
MaxSplitLen == 3

None == "None"

Byte == {0, 1}

\* all byte strings of length 0..n
RECURSIVE BytesUpTo(_)
BytesUpTo(n) ==
    IF n = 0 THEN {<<>>}
    ELSE LET shorter == BytesUpTo(n - 1)
         IN  shorter \cup {Append(s, b) : s \in {t \in shorter : Len(t) = n - 1}, b \in Byte}

Contents == BytesUpTo(MaxFileLen)

Range(s) == {s[k] : k \in 1..Len(s)}

\* all orders in which the elements of a finite set can be enumerated
Orders(S) == {s \in [1..Cardinality(S) -> S] : Range(s) = S}

(***************************************************************************)
(* Hasher (peer/file_utils.py).  SHA-256 is modelled as a collision-free   *)
(* digest: the hex digest of a byte string is the tagged byte string.      *)
(***************************************************************************)
sha256(bytes) == <<"sha256", bytes>>

\* get_file_hash: digest of the whole file, None (the empty list) when the path
\* is missing.  A path is read as <<bytes>>, or as <<>> when no file is there
get_file_hash(file) == IF file = <<>> THEN <<>> ELSE sha256(file[1])

\* the whole-file check replaced by one that accepts every file
verify_file_integrity_skip(file, expected_hash) == TRUE

\* verify_file_integrity(file_path, expected_hash)
verify_file_integrity(file, expected_hash) ==
    LET actual_hash == get_file_hash(file)
    IN  IF actual_hash = <<>> THEN FALSE ELSE actual_hash = expected_hash

\* verify_chunk_data(chunk_data, expected_hash)
verify_chunk_data(chunk_data, expected_hash) == sha256(chunk_data) = expected_hash

\* a chunking loop that stops at the first read shorter than chunk_size
RECURSIVE read_chunks_full_only(_, _)
read_chunks_full_only(bytes, chunk_size) ==
    IF Len(bytes) < chunk_size THEN <<>>
    ELSE <<SubSeq(bytes, 1, chunk_size)>>
         \o read_chunks_full_only(SubSeq(bytes, chunk_size + 1, Len(bytes)), chunk_size)

\* the successive f.read(chunk_size) results of the chunking loop
RECURSIVE read_chunks(_, _)
read_chunks(bytes, chunk_size) ==
    IF Len(bytes) = 0 THEN <<>>
    ELSE LET n == IF Len(bytes) < chunk_size THEN Len(bytes) ELSE chunk_size
         IN  <<SubSeq(bytes, 1, n)>> \o read_chunks(SubSeq(bytes, n + 1, Len(bytes)), chunk_size)

\* get_file_metadata(file_path, chunk_size)
get_file_metadata(name, bytes, chunk_size) ==
    LET chunks == read_chunks(bytes, chunk_size)
    IN  [name |-> name,
         size |-> Len(bytes),
         hash |-> get_file_hash(<<bytes>>),
         chunk_count |-> Len(chunks),
         chunk_hashes |-> [k \in 1..Len(chunks) |-> sha256(chunks[k])]]

\* read_chunk_from_file(file_path, chunk_index, chunk_size): seek + read
read_chunk_from_file(bytes, chunk_index, chunk_size) ==
    LET offset == chunk_index * chunk_size
        last == IF offset + chunk_size < Len(bytes) THEN offset + chunk_size ELSE Len(bytes)
    IN  SubSeq(bytes, offset + 1, last)

(***************************************************************************)
(* Tracker (tracker/tracker.py)                                            *)
(***************************************************************************)
PeerIds == {"p1", "p2"}
Conns == {"c1", "c2"}
Ports == {6000}
conn_ip(c) == IF c = "c1" THEN "ip1" ELSE "ip2"

VARIABLES
    origin,          \* the file the swarm distributes: bytes, chunk size, listed seeders
    job,             \* Peer.download_file: its position and local variables
    reputation,      \* reputation table: peer id -> [num, exp, interactions]
    rep_log,         \* history: per peer id, the events passed to update_reputation
    wire,            \* chunk connection: the bytes sent and not yet received
    rx,              \* request_chunk_from_peer: its position and local variables
    split,           \* file_utils used directly: position, descriptor, result
    completed,       \* completed directory: file name -> bytes
    downloads,       \* number of download_file calls so far
    rep_call,        \* per thread, the update_reputation call between its SELECT and its upsert
    rep_order,       \* a get_peers_sorted_by_reputation call: position, scores read so far
    control,         \* Peer.tracker_sock, the connection behind it and the tracker process
    callers,         \* per thread, its request/reply exchange on the control socket
    pipe,            \* control connection: requests and replies in flight
    tracker_rx,      \* tracker end of a control connection: bytes to read, replies sent
    locks,           \* tracker: holders of index_lock and peer_lock, position of each handler
    file_metadata,   \* storage: file hash -> descriptor
    chunk_tracker,   \* storage: file hash -> set of owned chunk indices
    file_locations,  \* storage: file hash -> path of the shared original
    chunk_files,     \* downloads directory: <<hash, index>> -> bytes of hash.index
    metadata_file,   \* storage_meta.json: the record last written to disk
    io_errors,       \* number of IOErrors so far
    store_call,      \* the store_chunk call between its file write and its bitmap update, if any
    store_returned,  \* what store_chunk returned, if it was the last call of the API to return
    file_index,      \* tracker: file hash -> [name, size, chunk_count, peers]
    peer_registry,   \* tracker: peer id -> <<ip, port>>
    conn,            \* tracker: per connection, the position of handle_client
    registered_on,   \* history: peer ids a still running handler registered
    last_register,   \* history: the register that ran last, nothing else since
    re_registered,   \* history: the last register repeated the one before it
    last_pruned      \* history: the index entries the last deregister removed

tracker_vars ==
    <<file_index, peer_registry, conn, registered_on, last_register, re_registered,
      last_pruned>>

history_vars == <<last_register, re_registered, last_pruned>>

framing_vars == <<wire, rx>>

rep_vars == <<rep_call, rep_order>>

svc_vars == <<tracker_rx, locks>>

net_vars == <<control, callers, pipe, svc_vars>>

conc_vars == <<rep_vars, net_vars>>

util_vars == <<split, conc_vars>>

peer_vars == <<origin, job, reputation, rep_log, completed, downloads, framing_vars,
               util_vars>>

store_vars ==
    <<file_metadata, chunk_tracker, file_locations, chunk_files, metadata_file, store_call,
      store_returned, io_errors>>

EmptyMap == [x \in {} |-> None]

\* handle_register, lines 53-55: peer_registry[peer_id] = peer_addr
register_peer(registry, peer_id, peer_addr) ==
    [p \in (DOMAIN registry) \cup {peer_id} |->
        IF p = peer_id THEN peer_addr ELSE registry[p]]

\* index_file taking name, size and chunk_count from the latest register
index_file_overwrite(index, peer_id, file_info) ==
    LET h == file_info.hash
        peers == IF h \in DOMAIN index THEN index[h].peers ELSE {}
    IN  [g \in (DOMAIN index) \cup {h} |->
            IF g = h
            THEN [name |-> file_info.name,
                  size |-> file_info.size,
                  chunk_count |-> file_info.chunk_count,
                  peers |-> peers \cup {peer_id}]
            ELSE index[g]]

\* index_file with the peer set updated by symmetric difference instead of add
index_file_toggle(index, peer_id, file_info) ==
    LET h == file_info.hash
        entry == IF h \in DOMAIN index THEN index[h]
                 ELSE [name |-> file_info.name,
                       size |-> file_info.size,
                       chunk_count |-> file_info.chunk_count,
                       peers |-> {}]
    IN  [g \in (DOMAIN index) \cup {h} |->
            IF g = h
            THEN [entry EXCEPT !.peers = (@ \ {peer_id}) \cup ({peer_id} \ @)]
            ELSE index[g]]

\* handle_register, lines 60-69: one iteration of the loop over files
index_file(index, peer_id, file_info) ==
    LET h == file_info.hash
        entry == IF h \in DOMAIN index THEN index[h]
                 ELSE [name |-> file_info.name,
                       size |-> file_info.size,
                       chunk_count |-> file_info.chunk_count,
                       peers |-> {}]
    IN  [g \in (DOMAIN index) \cup {h} |->
            IF g = h THEN [entry EXCEPT !.peers = @ \cup {peer_id}] ELSE index[g]]

\* handle_register, lines 57-70: the loop over the announced files
RECURSIVE index_files(_, _, _)
index_files(index, peer_id, files) ==
    IF files = <<>> THEN index
    ELSE index_files(index_file(index, peer_id, Head(files)), peer_id, Tail(files))

\* handle_register run to completion: the tracker state it leaves
handle_register(index, registry, client_ip, payload) ==
    [peer_registry |-> register_peer(registry, payload.peer_id, <<client_ip, payload.port>>),
     file_index |-> index_files(index, payload.peer_id, payload.files)]

\* handle_deregister, lines 138-141
deregister_peer(registry, peer_id) ==
    [p \in (DOMAIN registry) \ {peer_id} |-> registry[p]]

\* handle_deregister without lines 150-155: the id is removed, no entry is pruned
deregister_index_keep(index, peer_id) ==
    [h \in DOMAIN index |-> [index[h] EXCEPT !.peers = @ \ {peer_id}]]

\* handle_deregister, lines 143-155: remove the id everywhere, prune empty entries
deregister_index(index, peer_id) ==
    LET removed == [h \in DOMAIN index |-> [index[h] EXCEPT !.peers = @ \ {peer_id}]]
        kept == {h \in DOMAIN index : removed[h].peers # {}}
    IN  [h \in kept |-> removed[h]]

\* handle_query_file: the possible replies (the peer set is iterated in any order)
handle_query_file(index, registry, file_hash) ==
    IF file_hash \notin DOMAIN index
    THEN {[status |-> "error", message |-> "File not found"]}
    ELSE LET file_info == index[file_hash]
             active == {p \in file_info.peers : p \in DOMAIN registry}
         IN  IF active = {}
             THEN {[status |-> "error",
                    message |-> "File found, but no active peers available"]}
             ELSE {[status |-> "success",
                    file_name |-> file_info.name,
                    file_size |-> file_info.size,
                    chunk_count |-> file_info.chunk_count,
                    peers |-> [k \in DOMAIN ord |->
                                 [id |-> ord[k],
                                  ip |-> registry[ord[k]][1],
                                  port |-> registry[ord[k]][2]]]]
                   : ord \in Orders(active)}

(***************************************************************************)
(* Chunk store (peer/storage.py, StorageManager)                           *)
(***************************************************************************)
ChunkSizes == {1, 2}

\* the files on the local disk that can be shared: path -> bytes
LocalPaths == {"/d1/a.txt", "/d2/x.txt"}
local_file(path) == <<0, 1>>
basename(path) == IF path = "/d1/a.txt" THEN "a.txt" ELSE "x.txt"

StoreHashes == {get_file_hash(<<local_file(path)>>) : path \in LocalPaths}

\* set(range(n))
range(n) == 0..(n - 1)

\* the record _save_metadata_internal serialises
metadata_record(meta, tracker, locations) ==
    [file_metadata |-> meta, chunk_tracker |-> tracker, file_locations |-> locations]

\* StorageManager.__init__ on an empty directory: empty maps, saved
StoreFresh ==
    /\ file_metadata = EmptyMap
    /\ chunk_tracker = EmptyMap
    /\ file_locations = EmptyMap
    /\ chunk_files = EmptyMap
    /\ metadata_file = metadata_record(EmptyMap, EmptyMap, EmptyMap)
    /\ store_call = <<>>
    /\ store_returned = <<>>
    /\ io_errors = 0

\* dict[key] = value
put(map, key, value) ==
    [k \in (DOMAIN map) \cup {key} |-> IF k = key THEN value ELSE map[k]]

\* _save_metadata_internal: the write succeeds, or fails with an IOError that
\* is logged and leaves the file on disk as it was
save_metadata(saved, meta, tracker, locations) ==
    /\ ~saved => io_errors < MaxIOErrors
    /\ metadata_file' = IF saved THEN metadata_record(meta, tracker, locations)
                        ELSE metadata_file
    /\ io_errors' = IF saved THEN io_errors ELSE io_errors + 1

\* add_file_to_share(file_path, chunk_size)
add_file_to_share(path, chunk_size, saved) ==
    LET file_meta == get_file_metadata(basename(path), local_file(path), chunk_size)
        file_hash == file_meta.hash
    IN  /\ file_metadata' = put(file_metadata, file_hash, file_meta)
        /\ file_locations' = put(file_locations, file_hash, path)
        /\ chunk_tracker' = put(chunk_tracker, file_hash, range(file_meta.chunk_count))
        /\ save_metadata(saved, file_metadata', chunk_tracker', file_locations')
        /\ store_returned' = <<>>
        /\ UNCHANGED <<chunk_files, store_call>>

\* add_downloading_file creating the bitmap as add_file_to_share does (full)
add_downloading_file_full(file_meta, saved) ==
    IF file_meta.hash \notin DOMAIN file_metadata
    THEN /\ file_metadata' = put(file_metadata, file_meta.hash, file_meta)
         /\ chunk_tracker' = put(chunk_tracker, file_meta.hash, range(file_meta.chunk_count))
         /\ save_metadata(saved, file_metadata', chunk_tracker', file_locations)
         /\ store_returned' = <<>>
         /\ UNCHANGED <<file_locations, chunk_files, store_call>>
    ELSE /\ store_returned' = <<>>
         /\ UNCHANGED <<file_metadata, chunk_tracker, file_locations, chunk_files,
                        metadata_file, store_call, io_errors>>

\* add_downloading_file(file_meta)
add_downloading_file(file_meta, saved) ==
    IF file_meta.hash \notin DOMAIN file_metadata
    THEN /\ file_metadata' = put(file_metadata, file_meta.hash, file_meta)
         /\ chunk_tracker' = put(chunk_tracker, file_meta.hash, {})
         /\ save_metadata(saved, file_metadata', chunk_tracker', file_locations)
         /\ store_returned' = <<>>
         /\ UNCHANGED <<file_locations, chunk_files, store_call>>
    ELSE /\ store_returned' = <<>>
         /\ UNCHANGED <<file_metadata, chunk_tracker, file_locations, chunk_files,
                        metadata_file, store_call, io_errors>>

\* a proper prefix of the data: what a write that fails part-way leaves behind
partial_writes(data) == {SubSeq(data, 1, n) : n \in 0..(Len(data) - 1)}

\* store_chunk adding the index to the bitmap before the chunk file is written
store_chunk_write_bitmap_first(file_hash, chunk_index, chunk_data, outcome) ==
    /\ store_call = <<>>
    /\ IF file_hash \notin DOMAIN file_metadata
       THEN /\ store_returned' = <<FALSE>>
            /\ UNCHANGED <<file_metadata, chunk_tracker, file_locations, chunk_files,
                           metadata_file, store_call, io_errors>>
       ELSE /\ chunk_tracker' = [chunk_tracker EXCEPT ![file_hash] = @ \cup {chunk_index}]
            /\ CASE outcome = "written" ->
                      /\ chunk_files' = put(chunk_files, <<file_hash, chunk_index>>, chunk_data)
                      /\ store_call' = <<[file_hash |-> file_hash, chunk_index |-> chunk_index]>>
                      /\ store_returned' = <<>>
                 [] outcome = "open_failed" ->
                      /\ store_returned' = <<FALSE>>
                      /\ UNCHANGED <<chunk_files, store_call>>
                 [] outcome = "write_failed" ->
                      /\ \E part \in partial_writes(chunk_data) :
                            chunk_files' = put(chunk_files, <<file_hash, chunk_index>>, part)
                      /\ store_returned' = <<FALSE>>
                      /\ UNCHANGED store_call
            /\ outcome # "written" => io_errors < MaxIOErrors
            /\ io_errors' = IF outcome = "written" THEN io_errors ELSE io_errors + 1
            /\ UNCHANGED <<file_metadata, file_locations, metadata_file>>

\* store_chunk, lines 117-129: the tracked check, then the chunk file is written
\* outside the lock.  outcome is "written", or an IOError from open
\* ("open_failed", nothing on disk changes) or from write ("write_failed", the
\* file was created or truncated and holds a prefix of the data)
store_chunk_write(file_hash, chunk_index, chunk_data, outcome) ==
    /\ store_call = <<>>
    /\ IF file_hash \notin DOMAIN file_metadata
       THEN /\ store_returned' = <<FALSE>>
            /\ UNCHANGED <<file_metadata, chunk_tracker, file_locations, chunk_files,
                           metadata_file, store_call, io_errors>>
       ELSE /\ CASE outcome = "written" ->
                      /\ chunk_files' = put(chunk_files, <<file_hash, chunk_index>>, chunk_data)
                      /\ store_call' = <<[file_hash |-> file_hash, chunk_index |-> chunk_index]>>
                      /\ store_returned' = <<>>
                 [] outcome = "open_failed" ->
                      /\ store_returned' = <<FALSE>>
                      /\ UNCHANGED <<chunk_files, store_call>>
                 [] outcome = "write_failed" ->
                      /\ \E part \in partial_writes(chunk_data) :
                            chunk_files' = put(chunk_files, <<file_hash, chunk_index>>, part)
                      /\ store_returned' = <<FALSE>>
                      /\ UNCHANGED store_call
            /\ outcome # "written" => io_errors < MaxIOErrors
            /\ io_errors' = IF outcome = "written" THEN io_errors ELSE io_errors + 1
            /\ UNCHANGED <<file_metadata, chunk_tracker, file_locations, metadata_file>>

\* store_chunk, lines 132-137: under the lock, the index joins the bitmap and
\* the metadata is saved
store_chunk_commit(saved) ==
    /\ store_call # <<>>
    /\ chunk_tracker' = [chunk_tracker EXCEPT ![store_call[1].file_hash] =
                            @ \cup {store_call[1].chunk_index}]
    /\ save_metadata(saved, file_metadata, chunk_tracker', file_locations)
    /\ store_call' = <<>>
    /\ store_returned' = <<TRUE>>
    /\ UNCHANGED <<file_metadata, file_locations, chunk_files>>

\* a metadata file that holds a proper prefix of the JSON text, possibly nothing
truncated_metadata == [text |-> "truncated"]

\* json.load accepts the text of the file: all of a record was written
json_load_ok(file) == DOMAIN file = {"file_metadata", "chunk_tracker", "file_locations"}

\* _load_metadata, lines 35-52: the three maps of the file, or after an
\* exception from json.load the empty maps of _reset_metadata
load_metadata(file) ==
    IF json_load_ok(file) THEN file
    ELSE metadata_record(EmptyMap, EmptyMap, EmptyMap)

\* the process stops and a new StorageManager runs _load_metadata
restart ==
    /\ file_metadata' = load_metadata(metadata_file).file_metadata
    /\ chunk_tracker' = load_metadata(metadata_file).chunk_tracker
    /\ file_locations' = load_metadata(metadata_file).file_locations
    /\ store_call' = <<>>
    /\ store_returned' = <<>>
    /\ UNCHANGED <<chunk_files, metadata_file, io_errors>>

\* the process is killed inside _save_metadata_internal, after open(..., 'w')
\* truncated the file and before json.dump wrote all of the text; then a new
\* StorageManager runs _load_metadata on what is left
crash_in_save ==
    /\ metadata_file' = truncated_metadata
    /\ file_metadata' = load_metadata(truncated_metadata).file_metadata
    /\ chunk_tracker' = load_metadata(truncated_metadata).chunk_tracker
    /\ file_locations' = load_metadata(truncated_metadata).file_locations
    /\ store_call' = <<>>
    /\ store_returned' = <<>>
    /\ UNCHANGED <<chunk_files, io_errors>>

\* a get_missing_chunks that ignores the owned set
get_missing_chunks_unowned(file_hash) ==
    IF file_hash \notin DOMAIN file_metadata THEN {}
    ELSE range(file_metadata[file_hash].chunk_count)

\* get_missing_chunks / _get_missing_chunks_internal
get_missing_chunks(file_hash) ==
    IF file_hash \notin DOMAIN file_metadata THEN {}
    ELSE range(file_metadata[file_hash].chunk_count) \
            (IF file_hash \in DOMAIN chunk_tracker THEN chunk_tracker[file_hash] ELSE {})

\* is_download_complete
is_download_complete(file_hash) ==
    IF file_hash \notin DOMAIN file_metadata THEN FALSE
    ELSE get_missing_chunks(file_hash) = {}

\* _has_chunk_internal
has_chunk(file_hash, chunk_index) ==
    file_hash \in DOMAIN chunk_tracker /\ chunk_index \in chunk_tracker[file_hash]

\* the descriptors Peer.download_file builds from a tracker reply (lines 179-185):
\* the tracker sends no chunk_hashes, so the list defaults to empty
DownloadDescriptors ==
    {[name |-> "a.txt", size |-> Len(local_file(path)),
      hash |-> get_file_hash(<<local_file(path)>>),
      chunk_count |-> Len(read_chunks(local_file(path), cs)),
      chunk_hashes |-> <<>>] : path \in LocalPaths, cs \in ChunkSizes}

StoreData == {<<0>>}

StoreOutcomes == {"written", "open_failed", "write_failed"}

AddFileToShare == \E path \in LocalPaths, cs \in ChunkSizes, saved \in BOOLEAN :
    add_file_to_share(path, cs, saved) /\ UNCHANGED <<tracker_vars, peer_vars>>

AddDownloadingFile == \E file_meta \in DownloadDescriptors, saved \in BOOLEAN :
    add_downloading_file(file_meta, saved) /\ UNCHANGED <<tracker_vars, peer_vars>>

StoreChunkWrite ==
    \E h \in StoreHashes, i \in 0..MaxChunkIndex, data \in StoreData, o \in StoreOutcomes :
        store_chunk_write(h, i, data, o) /\ UNCHANGED <<tracker_vars, peer_vars>>

StoreChunkCommit == \E saved \in BOOLEAN :
    store_chunk_commit(saved) /\ UNCHANGED <<tracker_vars, peer_vars>>

Restart == restart /\ UNCHANGED <<tracker_vars, peer_vars>>

StoreNext ==
    \/ AddFileToShare
    \/ AddDownloadingFile
    \/ StoreChunkWrite
    \/ StoreChunkCommit
    \/ Restart

CrashInSave == crash_in_save /\ UNCHANGED <<tracker_vars, peer_vars>>

\* the chunk store of a process that can be killed at any time
StoreCrashNext ==
    \/ StoreNext
    \/ CrashInSave


\* the descriptors peers announce to the tracker: two files, and a second
\* descriptor with the digest of the first file but other fields
TrackerFiles ==
    {get_file_metadata("a.txt", <<0>>, 1),
     get_file_metadata("b.txt", <<1>>, 1),
     [get_file_metadata("a.txt", <<0>>, 1) EXCEPT !.name = "x.txt"]}

TrackerHashes == {f.hash : f \in TrackerFiles}

\* the files lists of register messages: get_shared_files_info returns the
\* values of a map keyed by digest, so the digests of one list are distinct
DistinctHashes(l) == \A i, j \in DOMAIN l : i # j => l[i].hash # l[j].hash

RECURSIVE FileLists(_)
FileLists(n) ==
    IF n = 0 THEN {<<>>}
    ELSE LET shorter == FileLists(n - 1)
             longer == {Append(l, f) : l \in {m \in shorter : Len(m) = n - 1},
                                       f \in TrackerFiles}
         IN  shorter \cup {l \in longer : DistinctHashes(l)}

\* the payloads of register messages
RegisterPayloads ==
    [peer_id : PeerIds, port : Ports, files : FileLists(MaxFilesPerMsg)]

FreeConn == [pc |-> "free", peer_id |-> None, msg |-> None]

\* the tracker process after start: both maps empty, no connection
TrackerFresh ==
    /\ file_index = EmptyMap
    /\ peer_registry = EmptyMap
    /\ conn = [c \in Conns |-> FreeConn]
    /\ registered_on = [c \in Conns |-> {}]
    /\ last_register = <<>>
    /\ re_registered = FALSE
    /\ last_pruned = {}

\* main, lines 238-243: accept a connection and start handle_client
Accept(c) ==
    /\ conn[c].pc = "free"
    /\ conn' = [conn EXCEPT ![c] = [pc |-> "open", peer_id |-> None, msg |-> None]]
    /\ UNCHANGED <<file_index, peer_registry, registered_on, history_vars>>
    /\ UNCHANGED <<store_vars, peer_vars>>

\* handle_client, lines 175-195: a register message arrives; its peer_id is noted
RecvRegister(c, payload) ==
    /\ conn[c].pc = "open"
    /\ conn' = [conn EXCEPT ![c] = [pc |-> "reg_peer", peer_id |-> payload.peer_id,
                                    msg |-> payload]]
    /\ UNCHANGED <<file_index, peer_registry, registered_on, history_vars>>
    /\ UNCHANGED <<store_vars, peer_vars>>

\* handle_register, lines 53-55, under peer_lock
RegisterPeer(c) ==
    /\ conn[c].pc = "reg_peer"
    /\ peer_registry' = register_peer(peer_registry, conn[c].msg.peer_id,
                                      <<conn_ip(c), conn[c].msg.port>>)
    /\ registered_on' = [registered_on EXCEPT ![c] = @ \cup {conn[c].msg.peer_id}]
    /\ conn' = [conn EXCEPT ![c].pc = "reg_index"]
    /\ UNCHANGED <<file_index, history_vars>>
    /\ UNCHANGED <<store_vars, peer_vars>>

\* handle_register, lines 57-72, under index_lock; handle_client sends the reply
RegisterIndex(c) ==
    /\ conn[c].pc = "reg_index"
    /\ file_index' = index_files(file_index, conn[c].msg.peer_id, conn[c].msg.files)
    /\ conn' = [conn EXCEPT ![c].pc = "open", ![c].msg = None]
    /\ UNCHANGED <<peer_registry, registered_on, history_vars>>
    /\ UNCHANGED <<store_vars, peer_vars>>

\* handle_client, lines 175-204: a query_file message, answered under index_lock
\* with peer_lock nested; a peer_id in the payload is noted as well
RecvQuery(c, file_hash, pid) ==
    /\ conn[c].pc = "open"
    /\ handle_query_file(file_index, peer_registry, file_hash) # {}
    /\ conn' = [conn EXCEPT ![c].peer_id = IF pid = None THEN @ ELSE pid]
    /\ UNCHANGED <<file_index, peer_registry, registered_on, history_vars>>
    /\ UNCHANGED <<store_vars, peer_vars>>

\* handle_client, lines 176-178 and 215-221: the peer closed the connection
Close(c) ==
    /\ conn[c].pc = "open"
    /\ IF conn[c].peer_id # None
       THEN /\ conn' = [conn EXCEPT ![c].pc = "dereg_peer"]
            /\ UNCHANGED registered_on
       ELSE /\ conn' = [conn EXCEPT ![c] = FreeConn]
            /\ registered_on' = [registered_on EXCEPT ![c] = {}]
    /\ UNCHANGED <<file_index, peer_registry, history_vars>>
    /\ UNCHANGED <<store_vars, peer_vars>>

\* handle_deregister, lines 138-141, under peer_lock
DeregisterPeer(c) ==
    /\ conn[c].pc = "dereg_peer"
    /\ peer_registry' = deregister_peer(peer_registry, conn[c].peer_id)
    /\ conn' = [conn EXCEPT ![c].pc = "dereg_index"]
    /\ UNCHANGED <<file_index, registered_on, history_vars>>
    /\ UNCHANGED <<store_vars, peer_vars>>

\* handle_deregister, lines 143-155, under index_lock; then conn.close()
DeregisterIndex(c) ==
    /\ conn[c].pc = "dereg_index"
    /\ file_index' = deregister_index(file_index, conn[c].peer_id)
    /\ conn' = [conn EXCEPT ![c] = FreeConn]
    /\ registered_on' = [registered_on EXCEPT ![c] = {}]
    /\ UNCHANGED <<peer_registry, history_vars>>
    /\ UNCHANGED <<store_vars, peer_vars>>

\* handle_client serving one register message from recv to reply, no other
\* handler running meanwhile
SeqRegister(c, payload) ==
    /\ conn[c].pc = "open"
    /\ LET done == handle_register(file_index, peer_registry, conn_ip(c), payload)
       IN  /\ file_index' = done.file_index
           /\ peer_registry' = done.peer_registry
    /\ conn' = [conn EXCEPT ![c].peer_id = payload.peer_id]
    /\ registered_on' = [registered_on EXCEPT ![c] = @ \cup {payload.peer_id}]
    /\ re_registered' = (last_register = <<[ip |-> conn_ip(c), payload |-> payload]>>)
    /\ last_pruned' = {}
    /\ last_register' = <<[ip |-> conn_ip(c), payload |-> payload]>>
    /\ UNCHANGED <<store_vars, peer_vars>>

\* handle_client after the peer closed the connection: handle_deregister run
\* to completion, no other handler running meanwhile
SeqClose(c) ==
    /\ conn[c].pc = "open"
    /\ IF conn[c].peer_id # None
       THEN /\ peer_registry' = deregister_peer(peer_registry, conn[c].peer_id)
            /\ file_index' = deregister_index(file_index, conn[c].peer_id)
       ELSE UNCHANGED <<peer_registry, file_index>>
    /\ conn' = [conn EXCEPT ![c] = FreeConn]
    /\ registered_on' = [registered_on EXCEPT ![c] = {}]
    /\ last_register' = <<>>
    /\ re_registered' = FALSE
    /\ last_pruned' = (DOMAIN file_index) \ (DOMAIN file_index')
    /\ UNCHANGED <<store_vars, peer_vars>>

TrackerSeqNext ==
    \/ \E c \in Conns : Accept(c)
    \/ \E c \in Conns, payload \in RegisterPayloads : SeqRegister(c, payload)
    \/ \E c \in Conns, h \in TrackerHashes, pid \in PeerIds \cup {None} : RecvQuery(c, h, pid)
    \/ \E c \in Conns : SeqClose(c)

TrackerNext ==
    \/ \E c \in Conns : Accept(c)
    \/ \E c \in Conns, payload \in RegisterPayloads : RecvRegister(c, payload)
    \/ \E c \in Conns : RegisterPeer(c)
    \/ \E c \in Conns : RegisterIndex(c)
    \/ \E c \in Conns, h \in TrackerHashes, pid \in PeerIds \cup {None} : RecvQuery(c, h, pid)
    \/ \E c \in Conns : Close(c)
    \/ \E c \in Conns : DeregisterPeer(c)
    \/ \E c \in Conns : DeregisterIndex(c)


(***************************************************************************)
(* Reputation store (peer/reputation.py).  A score is the exact rational   *)
(* num / 5^exp: ALPHA * old + BETA * delta = (4 * old + delta) / 5.        *)
(***************************************************************************)
\* the peer ids a reputation table is asked about
RepPeers == {"p1", "p2", "p3"}

\* the event names passed to update_reputation: the known ones and another
EventNames ==
    {"SUCCESSFUL_UPLOAD", "SUCCESSFUL_DOWNLOAD", "VERIFIED_INTEGRITY",
     "CONNECTION_TIMEOUT", "REFUSED_UPLOAD", "CORRUPTED_DATA", "UNKNOWN_EVENT"}

NoEvents == [p \in RepPeers |-> <<>>]

log_event(log, peer_id, event_type) ==
    IF peer_id \in DOMAIN log THEN [log EXCEPT ![peer_id] = Append(@, event_type)] ELSE log

REPUTATION_RULES ==
    [SUCCESSFUL_UPLOAD |-> 3, SUCCESSFUL_DOWNLOAD |-> 3, VERIFIED_INTEGRITY |-> 2,
     CONNECTION_TIMEOUT |-> -1, REFUSED_UPLOAD |-> -3, CORRUPTED_DATA |-> -5]

DEFAULT_REPUTATION == 10

RECURSIVE pow4(_)
pow4(n) == IF n = 0 THEN 1 ELSE 4 * pow4(n - 1)

RECURSIVE pow5(_)
pow5(n) == IF n = 0 THEN 1 ELSE 5 * pow5(n - 1)

\* get_reputation with 0 in place of DEFAULT_REPUTATION
get_reputation_from_zero(table, peer_id) ==
    IF peer_id \in DOMAIN table
    THEN [num |-> table[peer_id].num, exp |-> table[peer_id].exp]
    ELSE [num |-> 0, exp |-> 0]

\* get_reputation(peer_id): the stored score, the default for an unknown peer
get_reputation(table, peer_id) ==
    IF peer_id \in DOMAIN table
    THEN [num |-> table[peer_id].num, exp |-> table[peer_id].exp]
    ELSE [num |-> DEFAULT_REPUTATION, exp |-> 0]

\* a >= b for two scores
score_geq(a, b) == a.num * pow5(b.exp) >= b.num * pow5(a.exp)

\* update_reputation with the two weights exchanged: (old + 4 * delta) / 5
update_reputation_swapped(table, peer_id, event_type) ==
    IF event_type \notin DOMAIN REPUTATION_RULES THEN table
    ELSE LET old == get_reputation(table, peer_id)
             interactions == IF peer_id \in DOMAIN table
                             THEN table[peer_id].interactions ELSE 0
             new == [num |-> old.num + 4 * REPUTATION_RULES[event_type] * pow5(old.exp),
                     exp |-> old.exp + 1,
                     interactions |-> interactions + 1]
         IN  [q \in (DOMAIN table) \cup {peer_id} |-> IF q = peer_id THEN new ELSE table[q]]

\* update_reputation(peer_id, event_type)
update_reputation(table, peer_id, event_type) ==
    IF event_type \notin DOMAIN REPUTATION_RULES THEN table
    ELSE LET old == get_reputation(table, peer_id)
             interactions == IF peer_id \in DOMAIN table
                             THEN table[peer_id].interactions ELSE 0
             new == [num |-> 4 * old.num + REPUTATION_RULES[event_type] * pow5(old.exp),
                     exp |-> old.exp + 1,
                     interactions |-> interactions + 1]
         IN  [q \in (DOMAIN table) \cup {peer_id} |-> IF q = peer_id THEN new ELSE table[q]]

\* a descending sort that puts an element in front of the elements of equal score
RECURSIVE sort_by_score_ties_first(_, _)
sort_by_score_ties_first(table, peer_ids) ==
    IF peer_ids = <<>> THEN <<>>
    ELSE LET n == Len(peer_ids)
             front == sort_by_score_ties_first(table, SubSeq(peer_ids, 1, n - 1))
             x == peer_ids[n]
             k == Cardinality({j \in 1..Len(front) :
                     ~score_geq(get_reputation(table, x), get_reputation(table, front[j]))})
         IN  SubSeq(front, 1, k) \o <<x>> \o SubSeq(front, k + 1, Len(front))

\* list.sort(key=score, reverse=True) is stable: an element goes behind every
\* element already placed whose score is not smaller
RECURSIVE sort_by_score(_, _)
sort_by_score(table, peer_ids) ==
    IF peer_ids = <<>> THEN <<>>
    ELSE LET n == Len(peer_ids)
             front == sort_by_score(table, SubSeq(peer_ids, 1, n - 1))
             x == peer_ids[n]
             k == Cardinality({j \in 1..Len(front) :
                     score_geq(get_reputation(table, front[j]), get_reputation(table, x))})
         IN  SubSeq(front, 1, k) \o <<x>> \o SubSeq(front, k + 1, Len(front))

\* get_peers_sorted_by_reputation(peer_ids): (id, score) pairs, highest score first
get_peers_sorted_by_reputation(table, peer_ids) ==
    LET sorted == sort_by_score(table, peer_ids)
    IN  [k \in DOMAIN sorted |-> <<sorted[k], get_reputation(table, sorted[k])>>]

\* ReputationManager.update_reputation called on the store
UpdateReputation(peer_id, event_type) ==
    /\ Len(rep_log["p1"]) + Len(rep_log["p2"]) + Len(rep_log["p3"]) < MaxEvents
    /\ reputation' = update_reputation(reputation, peer_id, event_type)
    /\ rep_log' = log_event(rep_log, peer_id, event_type)
    /\ UNCHANGED <<tracker_vars, store_vars, origin, job, completed, downloads>>
    /\ UNCHANGED <<framing_vars, util_vars>>

ReputationNext == \E peer_id \in RepPeers, event_type \in EventNames :
                     UpdateReputation(peer_id, event_type)

(***************************************************************************)
(* The reputation store called from several threads.  The connection is    *)
(* opened with check_same_thread=False and the class holds no lock: a      *)
(* thread switch can fall between any two statements on the connection.    *)
(***************************************************************************)
RepThreads == {"t1", "t2"}
ConcPeers == {"p1", "p2"}
ConcEvents == {"SUCCESSFUL_DOWNLOAD", "CORRUPTED_DATA", "UNKNOWN_EVENT"}

IdleCall == [pc |-> "idle", peer_id |-> "", event_type |-> "", old_score |-> <<>>]
IdleOrder == [pc |-> "idle", peer_ids |-> <<>>, peer_scores |-> <<>>, seen |-> {}]

\* the threads of web_app that use the control socket: start_peer_background
\* (line 70) and a share_file thread (lines 105, 122)
CtlThreads == {"periodic", "share"}

\* request: the number of the request sent; reply_to: the number of the request
\* that the reply returned by receive_message answers, 0 for None
IdleCaller == [pc |-> "idle", request |-> 0, reply_to |-> 0]

EmptyPipe == [to_tracker |-> <<>>, to_peer |-> <<>>, sent |-> 0]

\* a control connection on which nothing was sent yet
NoRequests == [inbound |-> <<>>, sent |-> 0, processed |-> 0, replies |-> <<>>]

\* the handler threads of the tracker whose lock operations are followed
LockThreads == {"h1", "h2", "h3"}

\* tracker.py, lines 36-37: both locks free, no handler inside a command
NoLocks ==
    [held |-> [l \in {"index_lock", "peer_lock"} |-> None],
     pc |-> [t \in LockThreads |-> "idle"],
     response |-> [t \in LockThreads |-> "none"],
     calls |-> 0]

\* Peer.__init__: no tracker socket yet; the tracker is running
NoControl ==
    [tracker_sock |-> "none", link |-> "none", tracker_up |-> TRUE, stale |-> FALSE,
     last_exchange |-> "none", outages |-> 0]

ConcFresh ==
    /\ rep_call = [t \in RepThreads |-> IdleCall]
    /\ rep_order = IdleOrder
    /\ control = NoControl
    /\ callers = [t \in CtlThreads |-> IdleCaller]
    /\ pipe = EmptyPipe
    /\ tracker_rx = NoRequests
    /\ locks = NoLocks

\* the tables the store held while a sorted read was running
note_table(order, table) ==
    IF order.pc = "reading" THEN [order EXCEPT !.seen = @ \cup {table}] ELSE order

\* update_reputation, lines 90-111: the rule lookup and the SELECT of the
\* current score; an unknown event returns at once
UpdateSelect(t, peer_id, event_type) ==
    /\ rep_call[t].pc = "idle"
    /\ Len(rep_log["p1"]) + Len(rep_log["p2"]) + Len(rep_log["p3"]) < MaxEvents
    /\ rep_log' = log_event(rep_log, peer_id, event_type)
    /\ rep_call' = IF event_type \notin DOMAIN REPUTATION_RULES THEN rep_call
                   ELSE [rep_call EXCEPT ![t] =
                           [pc |-> "selected", peer_id |-> peer_id, event_type |-> event_type,
                            old_score |-> <<get_reputation(reputation, peer_id)>>]]
    /\ UNCHANGED <<tracker_vars, store_vars, origin, job, reputation, completed, downloads,
                   framing_vars, split, rep_order, net_vars>>

\* the row INSERT ... ON CONFLICT DO UPDATE leaves: the score computed from the
\* score selected earlier, the interactions column of the row incremented
upsert(table, peer_id, event_type, old_score) ==
    LET new == [num |-> 4 * old_score.num + REPUTATION_RULES[event_type] * pow5(old_score.exp),
                exp |-> old_score.exp + 1,
                interactions |-> IF peer_id \in DOMAIN table
                                 THEN table[peer_id].interactions + 1 ELSE 1]
    IN  [q \in (DOMAIN table) \cup {peer_id} |-> IF q = peer_id THEN new ELSE table[q]]

\* update_reputation, lines 114-126: new_score, the upsert and the commit
UpdateUpsert(t) ==
    /\ rep_call[t].pc = "selected"
    /\ reputation' = upsert(reputation, rep_call[t].peer_id, rep_call[t].event_type,
                            rep_call[t].old_score[1])
    /\ rep_call' = [rep_call EXCEPT ![t] = IdleCall]
    /\ rep_order' = note_table(rep_order, reputation')
    /\ UNCHANGED <<tracker_vars, store_vars, origin, job, rep_log, completed, downloads,
                   framing_vars, split, net_vars>>

\* get_peers_sorted_by_reputation, lines 145-146: the call starts
SortedBegin(peer_ids) ==
    /\ rep_order.pc = "idle"
    /\ rep_order' = [pc |-> "reading", peer_ids |-> peer_ids, peer_scores |-> <<>>,
                     seen |-> {reputation}]
    /\ UNCHANGED <<tracker_vars, store_vars, origin, job, reputation, rep_log, completed,
                   downloads, framing_vars, split, rep_call, net_vars>>

\* lines 146-151: one get_reputation SELECT of the loop; after the last one the
\* pairs are sorted and returned
SortedRead ==
    /\ rep_order.pc = "reading"
    /\ LET k == Len(rep_order.peer_scores) + 1
           peer_id == rep_order.peer_ids[k]
           read == Append(rep_order.peer_scores, <<peer_id, get_reputation(reputation, peer_id)>>)
           table == [j \in {read[i][1] : i \in 1..Len(read)} |->
                       LET i == CHOOSE i \in 1..Len(read) : read[i][1] = j
                       IN  [num |-> read[i][2].num, exp |-> read[i][2].exp, interactions |-> 0]]
       IN  rep_order' =
             IF k < Len(rep_order.peer_ids)
             THEN [rep_order EXCEPT !.peer_scores = read]
             ELSE [rep_order EXCEPT !.pc = "done",
                                    !.peer_scores = get_peers_sorted_by_reputation(
                                                       table, rep_order.peer_ids)]
    /\ UNCHANGED <<tracker_vars, store_vars, origin, job, reputation, rep_log, completed,
                   downloads, framing_vars, split, rep_call, net_vars>>

ReputationConcNext ==
    \/ \E t \in RepThreads, peer_id \in ConcPeers, event_type \in ConcEvents :
          UpdateSelect(t, peer_id, event_type)
    \/ \E t \in RepThreads : UpdateUpsert(t)
    \/ SortedBegin(<<"p1", "p2">>)
    \/ SortedRead

(***************************************************************************)
(* Chunk protocol (peer/network_utils.py)                                  *)
(***************************************************************************)
\* the peer that downloads, and the peers that advertise the file: p1 runs
\* this repository's peer server, p3 is any process speaking the protocol
Downloader == "p2"
HonestSeeder == "p1"
Seeders == {"p1", "p3"}
peer_port(peer_id) == IF peer_id = "p1" THEN 6001 ELSE IF peer_id = "p2" THEN 6002 ELSE 6003
peer_ip(peer_id) == "127.0.0.1"

\* the byte strings a peer can send as a chunk: anything up to the chunk size
Payloads(max_len) == {d \in Contents : Len(d) <= max_len}

NoReply == [status |-> "closed", data |-> <<>>]

\* handle_peer_request: the request is parsed, then line 226 calls
\* storage_manager.get_chunk_path, which StorageManager does not define; the
\* AttributeError is caught at line 259 and the connection is closed at line
\* 262 without any reply
handle_peer_request(file_hash, chunk_index) == NoReply

\* what the process listening at a peer's address may answer to request_chunk
server_replies(peer_id, file_hash, chunk_index, max_len) ==
    IF peer_id \in {HonestSeeder, Downloader}
    THEN {handle_peer_request(file_hash, chunk_index)}
    ELSE {NoReply, [status |-> "error", data |-> <<>>]}
         \cup {[status |-> "success", data |-> d] : d \in Payloads(max_len)}

\* request_chunk_from_peer: the chunk bytes as a one-element list, or the empty
\* list for None (no header before the peer closed, or an error header)
request_chunk_from_peer(server_reply) ==
    IF server_reply.status = "success" THEN <<server_reply.data>> ELSE <<>>

(***************************************************************************)
(* Chunk reply on the wire (peer/network_utils.py).  A byte is one of:     *)
(*   "{" "}"  the bytes of the JSON header (ASCII; the header is complete  *)
(*            with its closing brace)                                      *)
(*   "a"      an ASCII payload byte                                        *)
(*   "L" "C"  lead and continuation byte of a two-byte UTF-8 character     *)
(*   "x"      a byte that occurs in no UTF-8 text (0xFF)                   *)
(***************************************************************************)
PayloadBytes == {"a", "L", "C", "x"}

RECURSIVE WireStrings(_)
WireStrings(n) ==
    IF n = 0 THEN {<<>>}
    ELSE LET shorter == WireStrings(n - 1)
         IN  shorter \cup {Append(w, b) : w \in {t \in shorter : Len(t) = n - 1},
                                          b \in PayloadBytes}

WirePayloads == WireStrings(MaxWireLen)

\* json.dumps of the success header, line 234-238
response_header == <<"{", "}">>

\* bytes.decode('utf-8'): the number of characters, or -1 for UnicodeDecodeError
RECURSIVE utf8_decode(_)
utf8_decode(bytes) ==
    IF bytes = <<>> THEN 0
    ELSE IF Head(bytes) \in {"{", "}", "a"}
         THEN LET rest == utf8_decode(Tail(bytes))
              IN  IF rest < 0 THEN -1 ELSE 1 + rest
    ELSE IF Head(bytes) = "L" /\ Len(bytes) >= 2 /\ bytes[2] = "C"
         THEN LET rest == utf8_decode(Tail(Tail(bytes)))
              IN  IF rest < 0 THEN -1 ELSE 1 + rest
    ELSE -1

\* JSONDecoder.raw_decode on the decoded buffer: the index behind the first
\* JSON value, or -1 for JSONDecodeError (the value is not complete yet)
raw_decode(bytes) ==
    IF Len(bytes) >= Len(response_header)
       /\ SubSeq(bytes, 1, Len(response_header)) = response_header
    THEN Len(response_header) ELSE -1

\* no file analyzed or split yet
NoSplit == [pc |-> "start", meta |-> <<>>, success |-> FALSE, lost |-> {}]

\* declared: the chunk_size of the header the server sends, as a one-element
\* list, or the empty list when the header has none
IdleRx == [pc |-> "idle", buffer |-> <<>>, chunk_data |-> <<>>, chunk_size |-> 0,
           payload |-> <<>>, result |-> <<>>, open |-> FALSE, declared |-> <<>>]

\* handle_peer_request, lines 233-239, then 262: the success header and the raw
\* chunk are sent back to back and the connection is closed
SendChunk(payload) ==
    /\ rx.pc \in {"idle", "done"}
    /\ wire' = response_header \o payload
    /\ rx' = [IdleRx EXCEPT !.pc = "header", !.payload = payload,
                             !.declared = <<Len(payload)>>]
    /\ UNCHANGED <<tracker_vars, store_vars, origin, job, reputation, rep_log,
                   completed, downloads, util_vars>>

\* the chunk_size values a peer's header can carry: absent, or a length
DeclaredSizes == {<<>>} \cup {<<n>> : n \in 0..MaxWireLen}

\* a peer that answers with a success header and then sends what it likes -
\* fewer bytes than it declared, more, or a header without chunk_size - and
\* closes the connection
SendReply(declared, bytes) ==
    /\ rx.pc \in {"idle", "done"}
    /\ wire' = response_header \o bytes
    /\ rx' = [IdleRx EXCEPT !.pc = "header", !.payload = bytes, !.declared = declared]
    /\ UNCHANGED <<tracker_vars, store_vars, origin, job, reputation, rep_log,
                   completed, downloads, util_vars>>

\* a peer accepts the connection and answers with bytes that never complete a
\* header: text, bytes that are no UTF-8, an opening brace
StreamBytes == {"a", "x", "{"}

\* the peer starts its answer and keeps the connection open
OpenStream ==
    /\ rx.pc \in {"idle", "done"}
    /\ wire' = <<>>
    /\ rx' = [IdleRx EXCEPT !.pc = "header", !.open = TRUE]
    /\ UNCHANGED <<tracker_vars, store_vars, origin, job, reputation, rep_log,
                   completed, downloads, util_vars>>

\* the peer sends one more byte; at most MaxWireLen bytes are in flight
SendMore(b) ==
    /\ rx.pc = "header"
    /\ rx.open
    /\ Len(wire) < MaxWireLen
    /\ wire' = Append(wire, b)
    /\ UNCHANGED <<tracker_vars, store_vars, origin, job, reputation, rep_log,
                   completed, downloads, util_vars, rx>>

\* the receive buffer grows without limit while no header is found; a buffer
\* whose first bytes are not a header never becomes one, and the model keeps
\* its first MaxBuffer bytes
MaxBuffer == Len(response_header) + MaxWireLen

kept(buffer) ==
    IF Len(buffer) > MaxBuffer /\ raw_decode(buffer) < 0
    THEN SubSeq(buffer, 1, MaxBuffer) ELSE buffer

\* sock.recv(n) on a stream with bytes left: any non-empty prefix of at most n bytes
recv(n) == {k \in 1..Len(wire) : k <= n}

\* request_chunk_from_peer, lines 130-150: one pass of the header loop
ReceiveHeader ==
    /\ rx.pc = "header"
    /\ IF utf8_decode(rx.buffer) < 0
       THEN \* UnicodeDecodeError, lines 144-150: read one more byte
            IF wire = <<>>
            THEN /\ rx' = [rx EXCEPT !.pc = "done", !.result = <<>>]
                 /\ UNCHANGED wire
            ELSE /\ rx' = [rx EXCEPT !.buffer = kept(Append(@, Head(wire)))]
                 /\ wire' = Tail(wire)
       ELSE IF raw_decode(rx.buffer) < 0
       THEN \* JSONDecodeError, lines 137-143: read up to 128 bytes more
            IF wire = <<>>
            THEN /\ rx' = [rx EXCEPT !.pc = "done", !.result = <<>>]
                 /\ UNCHANGED wire
            ELSE \E k \in recv(128) :
                    /\ rx' = [rx EXCEPT !.buffer = kept(@ \o SubSeq(wire, 1, k))]
                    /\ wire' = SubSeq(wire, k + 1, Len(wire))
       ELSE \* lines 133-136, 152-164: the header is parsed, the rest of the
            \* buffer is the start of the chunk
            /\ rx' = IF rx.declared = <<>>
                     THEN \* lines 156-159: no chunk_size in the header
                          [rx EXCEPT !.pc = "done", !.result = <<>>]
                     ELSE [rx EXCEPT !.pc = "payload",
                                     !.chunk_size = rx.declared[1],
                                     !.chunk_data = SubSeq(rx.buffer,
                                                           raw_decode(rx.buffer) + 1,
                                                           Len(rx.buffer))]
            /\ UNCHANGED wire
    /\ UNCHANGED <<tracker_vars, store_vars, origin, job, reputation, rep_log,
                   completed, downloads, util_vars>>

\* request_chunk_from_peer, lines 168-182: one pass of the payload loop, or the
\* return of the chunk
ReceivePayload ==
    /\ rx.pc = "payload"
    /\ IF Len(rx.chunk_data) < rx.chunk_size
       THEN IF wire = <<>>
            THEN /\ rx' = [rx EXCEPT !.pc = "done", !.result = <<>>]
                 /\ UNCHANGED wire
            ELSE \E k \in recv(rx.chunk_size - Len(rx.chunk_data)) :
                    /\ rx' = [rx EXCEPT !.chunk_data = @ \o SubSeq(wire, 1, k)]
                    /\ wire' = SubSeq(wire, k + 1, Len(wire))
       ELSE /\ rx' = [rx EXCEPT !.pc = "done", !.result = <<rx.chunk_data>>]
            /\ UNCHANGED wire
    /\ UNCHANGED <<tracker_vars, store_vars, origin, job, reputation, rep_log,
                   completed, downloads, util_vars>>

\* a chunk request answered by a stream that never completes a header
StreamNext ==
    \/ OpenStream
    \/ \E b \in StreamBytes : SendMore(b)
    \/ ReceiveHeader

\* chunk requests answered by peers that need not keep to the declared size
ChunkReplyNext ==
    \/ \E declared \in DeclaredSizes, bytes \in WirePayloads : SendReply(declared, bytes)
    \/ ReceiveHeader
    \/ ReceivePayload

FramingNext ==
    \/ \E payload \in WirePayloads : SendChunk(payload)
    \/ ReceiveHeader
    \/ ReceivePayload

(***************************************************************************)
(* Downloader (peer/peer.py, Peer.download_file)                           *)
(***************************************************************************)
IdleJob ==
    [pc |-> "idle", status |-> "none", file_hash |-> <<>>, name |-> "", chunk_count |-> 0,
     peer_list |-> <<>>, sorted_peers |-> <<>>, missing_chunks |-> <<>>, next_peer |-> 1,
     source |-> "", last_reply |-> "none", contacted |-> <<>>, seeded |-> FALSE]

\* a Peer started on an empty storage directory
PeerFresh ==
    /\ origin = [content |-> <<>>, chunk_size |-> 1, seeders |-> {}]
    /\ job = IdleJob
    /\ reputation = EmptyMap
    /\ rep_log = NoEvents
    /\ completed = EmptyMap
    /\ downloads = 0
    /\ wire = <<>>
    /\ rx = IdleRx
    /\ split = NoSplit
    /\ ConcFresh

\* the descriptor the seeders computed when they shared the file
origin_meta == get_file_metadata("a.txt", origin.content, origin.chunk_size)

\* the registry and index after the peers in ids registered, one after the
\* other, each announcing files
RECURSIVE registered(_, _, _)
registered(state, ids, files) ==
    IF ids = <<>> THEN state
    ELSE registered(handle_register(state.file_index, state.peer_registry,
                                    peer_ip(Head(ids)),
                                    [peer_id |-> Head(ids), port |-> peer_port(Head(ids)),
                                     files |-> files]),
                    Tail(ids), files)

\* a swarm: some seeders shared the file and registered it, the downloader
\* started with nothing to share and registered an empty list
DownloadInit ==
    /\ StoreFresh
    /\ \E content \in Contents, cs \in ChunkSizes, listed \in SUBSET Seeders :
          /\ origin = [content |-> content, chunk_size |-> cs, seeders |-> listed]
          /\ \E ids \in Orders(listed) :
                LET start == [file_index |-> EmptyMap, peer_registry |-> EmptyMap]
                    meta == get_file_metadata("a.txt", content, cs)
                    seeded == registered(start, ids, <<meta>>)
                    all == registered(seeded, <<Downloader>>, <<>>)
                IN  /\ file_index = all.file_index
                    /\ peer_registry = all.peer_registry
    /\ conn = [c \in Conns |-> FreeConn]
    /\ registered_on = [c \in Conns |-> {}]
    /\ last_register = <<>>
    /\ re_registered = FALSE
    /\ last_pruned = {}
    /\ job = IdleJob
    /\ reputation = EmptyMap
    /\ rep_log = NoEvents
    /\ completed = EmptyMap
    /\ downloads = 0
    /\ wire = <<>>
    /\ rx = IdleRx
    /\ split = NoSplit
    /\ ConcFresh

\* peer_id_for_rep (line 223): the first id of the tracker's list with the address
peer_id_for_addr(peer_list, addr) ==
    LET hits == {k \in 1..Len(peer_list) : <<peer_list[k].ip, peer_list[k].port>> = addr}
    IN  IF hits = {} THEN None
        ELSE peer_list[CHOOSE k \in hits : \A j \in hits : k <= j].id

\* download_file, lines 150-212: query the tracker; on success track the file,
\* order the peers by reputation and list the missing chunks
StartDownload ==
    /\ job.pc \in {"idle", "done"}
    /\ downloads < MaxDownloads
    /\ downloads' = downloads + 1
    /\ LET file_hash == get_file_hash(<<origin.content>>)
       IN \E response \in handle_query_file(file_index, peer_registry, file_hash) :
          IF response.status # "success"
          THEN /\ job' = [IdleJob EXCEPT !.pc = "done", !.status = "query_failed",
                                         !.file_hash = file_hash]
               /\ UNCHANGED store_vars
          ELSE LET file_meta == [name |-> response.file_name,
                                 size |-> response.file_size,
                                 hash |-> file_hash,
                                 chunk_count |-> response.chunk_count,
                                 chunk_hashes |-> <<>>]
                   peer_ids == [k \in DOMAIN response.peers |-> response.peers[k].id]
               IN  /\ \E saved \in BOOLEAN : add_downloading_file(file_meta, saved)
                   /\ \E order \in Orders(range(file_meta.chunk_count)
                                          \ (IF file_hash \in DOMAIN chunk_tracker
                                             THEN chunk_tracker[file_hash] ELSE {})) :
                         job' = [pc |-> IF order = <<>> THEN "finalize" ELSE "fetch",
                                 status |-> "none",
                                 file_hash |-> file_hash,
                                 name |-> file_meta.name,
                                 chunk_count |-> file_meta.chunk_count,
                                 peer_list |-> response.peers,
                                 sorted_peers |->
                                     LET sorted_peers_with_score ==
                                             get_peers_sorted_by_reputation(reputation,
                                                                            peer_ids)
                                     IN  [k \in DOMAIN sorted_peers_with_score |->
                                            sorted_peers_with_score[k][1]],
                                 missing_chunks |-> order,
                                 next_peer |-> 1,
                                 source |-> "",
                                 last_reply |-> "none",
                                 contacted |-> <<>>,
                                 seeded |-> /\ file_hash \in DOMAIN file_locations
                                            /\ is_download_complete(file_hash)]
    /\ UNCHANGED <<tracker_vars, origin, reputation, rep_log, completed>>
    /\ UNCHANGED <<framing_vars, util_vars>>

\* peer_addr_map[peer_id] (line 200)
peer_addr(peer_list, peer_id) ==
    LET k == CHOOSE k \in 1..Len(peer_list) : peer_list[k].id = peer_id
    IN  <<peer_list[k].ip, peer_list[k].port>>

\* the peer whose server listens at an address
listener(addr) == CHOOSE p \in Seeders \cup {Downloader} : <<peer_ip(p), peer_port(p)>> = addr

\* the loop over missing_chunks moves to the next chunk (line 249 break, 254-256)
next_chunk(j) ==
    [j EXCEPT !.missing_chunks = Tail(@), !.next_peer = 1, !.source = "",
              !.pc = IF Tail(j.missing_chunks) = <<>> THEN "finalize" ELSE "fetch"]

\* lines 245, 252: "if peer_id_for_rep:" guards each reputation update
note_event(table, peer_id_for_rep, event_type) ==
    IF peer_id_for_rep = None THEN table
    ELSE update_reputation(table, peer_id_for_rep, event_type)

\* download_file, lines 216-252: one pass of the loop over sorted_peer_addrs.
\* The job keeps as history the status of the last reply and the requests sent
\* so far (chunk index, id of the peer whose address was contacted).
\* A non-empty payload is handed to store_chunk as it came; None or an empty
\* payload counts as a refusal
FetchChunk ==
    /\ job.pc = "fetch"
    /\ job.next_peer <= Len(job.sorted_peers)
    /\ LET chunk_index == Head(job.missing_chunks)
           addr == peer_addr(job.peer_list, job.sorted_peers[job.next_peer])
           peer_id_for_rep == peer_id_for_addr(job.peer_list, addr)
       IN \E server_reply \in server_replies(listener(addr), job.file_hash, chunk_index,
                                          origin.chunk_size) :
          LET chunk_data == request_chunk_from_peer(server_reply)
              tried == [job EXCEPT !.last_reply = server_reply.status,
                                   !.contacted = Append(@, <<chunk_index,
                                                    job.sorted_peers[job.next_peer]>>)]
          IN  IF chunk_data # <<>> /\ chunk_data[1] # <<>>
              THEN \E outcome \in {"written", "open_failed", "write_failed"} :
                     /\ store_chunk_write(job.file_hash, chunk_index, chunk_data[1], outcome)
                     /\ IF outcome = "written"
                        THEN /\ job' = [tried EXCEPT !.pc = "commit", !.source = peer_id_for_rep]
                             /\ UNCHANGED <<reputation, rep_log>>
                        ELSE /\ job' = next_chunk(tried)
                             /\ reputation' = note_event(reputation, peer_id_for_rep,
                                                         "SUCCESSFUL_DOWNLOAD")
                             /\ rep_log' = log_event(rep_log, peer_id_for_rep,
                                                     "SUCCESSFUL_DOWNLOAD")
              ELSE /\ reputation' = note_event(reputation, peer_id_for_rep, "REFUSED_UPLOAD")
                   /\ rep_log' = log_event(rep_log, peer_id_for_rep, "REFUSED_UPLOAD")
                   /\ job' = [tried EXCEPT !.next_peer = @ + 1]
                   /\ UNCHANGED store_vars
    /\ UNCHANGED <<tracker_vars, origin, completed, downloads>>
    /\ UNCHANGED <<framing_vars, util_vars>>

\* store_chunk's second half, then lines 244-249: the sender is credited and
\* the loop moves to the next chunk
CommitChunk ==
    /\ job.pc = "commit"
    /\ \E saved \in BOOLEAN : store_chunk_commit(saved)
    /\ reputation' = note_event(reputation, job.source, "SUCCESSFUL_DOWNLOAD")
    /\ rep_log' = log_event(rep_log, job.source, "SUCCESSFUL_DOWNLOAD")
    /\ job' = next_chunk(job)
    /\ UNCHANGED <<tracker_vars, origin, completed, downloads>>
    /\ UNCHANGED <<framing_vars, util_vars>>

\* download_file, lines 254-256: no peer delivered the chunk, the download returns
AbortDownload ==
    /\ job.pc = "fetch"
    /\ job.next_peer > Len(job.sorted_peers)
    /\ job' = [job EXCEPT !.pc = "done", !.status = "aborted"]
    /\ UNCHANGED <<tracker_vars, store_vars, origin, reputation, rep_log, completed, downloads>>
    /\ UNCHANGED <<framing_vars, util_vars>>

\* a reassembly that appends the chunk files in descending index order
RECURSIVE reassemble_file_descending(_, _, _, _)
reassemble_file_descending(file_hash, chunk_count, files, i) ==
    IF i >= chunk_count THEN [success |-> TRUE, output |-> <<>>]
    ELSE IF <<file_hash, i>> \notin DOMAIN files THEN [success |-> FALSE, output |-> <<>>]
    ELSE LET rest == reassemble_file_descending(file_hash, chunk_count, files, i + 1)
         IN  [success |-> rest.success, output |-> rest.output \o files[<<file_hash, i>>]]

\* reassemble_file: the output is opened for writing, then the chunk files are
\* appended in index order until one is missing
RECURSIVE reassemble_file(_, _, _, _)
reassemble_file(file_hash, chunk_count, files, i) ==
    IF i >= chunk_count THEN [success |-> TRUE, output |-> <<>>]
    ELSE IF <<file_hash, i>> \notin DOMAIN files THEN [success |-> FALSE, output |-> <<>>]
    ELSE LET rest == reassemble_file(file_hash, chunk_count, files, i + 1)
         IN  [success |-> rest.success, output |-> files[<<file_hash, i>>] \o rest.output]

(***************************************************************************)
(* file_utils called directly, as the unit tests do: a file is analyzed or *)
(* split into chunk files, chunk files may get lost, the rest is           *)
(* reassembled                                                             *)
(***************************************************************************)
SplitContents == BytesUpTo(MaxSplitLen)
SplitChunkSizes == 1..(MaxSplitLen + 1)

\* split_file, lines 170-187: the chunk files H.0, H.1, ... of the chunking loop
split_chunk_files(file_hash, bytes, chunk_size) ==
    LET chunks == read_chunks(bytes, chunk_size)
    IN  [key \in {<<file_hash, k - 1>> : k \in 1..Len(chunks)} |-> chunks[key[2] + 1]]

\* get_file_metadata on the file
AnalyzeFile ==
    /\ split.pc = "start"
    /\ split' = [split EXCEPT !.pc = "analyzed",
                              !.meta = <<get_file_metadata("a.txt", origin.content,
                                                           origin.chunk_size)>>]
    /\ UNCHANGED <<tracker_vars, store_vars, origin, job, reputation, rep_log,
                   completed, downloads, framing_vars, conc_vars>>

\* split_file on the file: chunk files and descriptor
SplitFile ==
    /\ split.pc \in {"start", "analyzed"}
    /\ LET meta == get_file_metadata("a.txt", origin.content, origin.chunk_size)
       IN  /\ chunk_files' = split_chunk_files(meta.hash, origin.content, origin.chunk_size)
           /\ split' = [split EXCEPT !.pc = "split", !.meta = <<meta>>]
    /\ UNCHANGED <<tracker_vars, file_metadata, chunk_tracker, file_locations,
                   metadata_file, store_call, store_returned,
                   io_errors, origin, job, reputation,
                   rep_log, completed, downloads, framing_vars, conc_vars>>

\* a chunk file disappears from the chunk directory
LoseChunkFile(key) ==
    /\ split.pc = "split"
    /\ key \in DOMAIN chunk_files
    /\ chunk_files' = [k \in (DOMAIN chunk_files) \ {key} |-> chunk_files[k]]
    /\ split' = [split EXCEPT !.lost = @ \cup {key[2]}]
    /\ UNCHANGED <<tracker_vars, file_metadata, chunk_tracker, file_locations,
                   metadata_file, store_call, store_returned,
                   io_errors, origin, job, reputation,
                   rep_log, completed, downloads, framing_vars, conc_vars>>

\* reassemble_file on the chunk directory
ReassembleFile ==
    /\ split.pc = "split"
    /\ LET built == reassemble_file(split.meta[1].hash, split.meta[1].chunk_count,
                                    chunk_files, 0)
       IN  /\ completed' = put(completed, "reassembled_file.txt", built.output)
           /\ split' = [split EXCEPT !.pc = "reassembled", !.success = built.success]
    /\ UNCHANGED <<tracker_vars, store_vars, origin, job, reputation, rep_log,
                   downloads, framing_vars, conc_vars>>

SplitNext ==
    \/ AnalyzeFile
    \/ SplitFile
    \/ \E key \in DOMAIN chunk_files : LoseChunkFile(key)
    \/ ReassembleFile

\* any file up to MaxSplitLen bytes, any chunk size
SplitInit ==
    /\ TrackerFresh
    /\ StoreFresh
    /\ \E content \in SplitContents, cs \in SplitChunkSizes :
          origin = [content |-> content, chunk_size |-> cs, seeders |-> {}]
    /\ job = IdleJob
    /\ reputation = EmptyMap
    /\ rep_log = NoEvents
    /\ completed = EmptyMap
    /\ downloads = 0
    /\ wire = <<>>
    /\ rx = IdleRx
    /\ split = NoSplit
    /\ ConcFresh

\* get_shared_files_info: the descriptors of every tracked file
get_shared_files_info == {[k \in DOMAIN order |-> file_metadata[order[k]]] :
                             order \in Orders(DOMAIN file_metadata)}

\* download_file, lines 259-283: the bitmap is complete, the file is reassembled
\* and verified as a whole; a verified file is announced to the tracker, a file
\* that fails is deleted
FinalizeDownload ==
    /\ job.pc = "finalize"
    /\ IF ~is_download_complete(job.file_hash)
       THEN /\ job' = [job EXCEPT !.pc = "done", !.status = "missing_chunks"]
            /\ UNCHANGED <<completed, tracker_vars>>
       ELSE LET built == reassemble_file(job.file_hash, job.chunk_count, chunk_files, 0)
            IN  IF ~built.success
                THEN /\ completed' = put(completed, job.name, built.output)
                     /\ job' = [job EXCEPT !.pc = "done", !.status = "reassembly_failed"]
                     /\ UNCHANGED tracker_vars
                ELSE IF verify_file_integrity(<<built.output>>, job.file_hash)
                THEN /\ completed' = put(completed, job.name, built.output)
                     /\ job' = [job EXCEPT !.pc = "done", !.status = "success"]
                     /\ \E files \in get_shared_files_info :
                           LET after == handle_register(file_index, peer_registry,
                                            peer_ip(Downloader),
                                            [peer_id |-> Downloader,
                                             port |-> peer_port(Downloader),
                                             files |-> files])
                           IN  /\ file_index' = after.file_index
                               /\ peer_registry' = after.peer_registry
                     /\ UNCHANGED <<conn, registered_on, history_vars>>
                ELSE /\ completed' = [n \in (DOMAIN completed) \ {job.name} |-> completed[n]]
                     /\ job' = [job EXCEPT !.pc = "done", !.status = "integrity_failed"]
                     /\ UNCHANGED tracker_vars
    /\ UNCHANGED <<store_vars, origin, reputation, rep_log, downloads>>
    /\ UNCHANGED <<framing_vars, util_vars>>

\* Peer.register_with_tracker between two downloads (share_file, the periodic
\* registration): every tracked descriptor is announced, complete or not
RegisterWithTracker ==
    /\ job.pc \in {"idle", "done"}
    /\ \E files \in get_shared_files_info :
          LET after == handle_register(file_index, peer_registry, peer_ip(Downloader),
                                       [peer_id |-> Downloader,
                                        port |-> peer_port(Downloader),
                                        files |-> files])
          IN  /\ file_index' = after.file_index
              /\ peer_registry' = after.peer_registry
    /\ UNCHANGED <<conn, registered_on, history_vars>>
    /\ UNCHANGED <<store_vars, origin, job, reputation, rep_log, completed, downloads>>
    /\ UNCHANGED <<framing_vars, util_vars>>

(***************************************************************************)
(* The tracker control connection of a peer (peer/peer.py lines 93-131,    *)
(* network_utils.py lines 19-79).  control.link is the state of the TCP    *)
(* connection behind Peer.tracker_sock:                                    *)
(*   "ok"      both ends alive                                             *)
(*   "dead"    the other end is gone and this end has not noticed: a send  *)
(*             is accepted by the local stack, no reply comes back         *)
(*   "broken"  this end has received the reset: a send raises              *)
(***************************************************************************)
\* number of times the tracker stops or the network drops the connection
MaxOutages == 2

\* the peer that owns the control connection
ThisPeer == Downloader

\* the descriptor lists get_shared_files_info can return for a metadata map
shared_files_info(metadata) ==
    {[k \in DOMAIN order |-> metadata[order[k]]] : order \in Orders(DOMAIN metadata)}

\* Peer.register_with_tracker, lines 104-131, announcing the files of metadata.
\* Without a socket the peer connects first (lines 107-112).  The exchange is
\* send_message, which raises on a socket error, then receive_message, which
\* returns None on every error and on a timeout: only an exception closes the
\* socket (lines 126-131)
peer_register(metadata) ==
    IF control.tracker_sock = "none" /\ ~control.tracker_up
    THEN /\ control' = [control EXCEPT !.last_exchange = "connect_failed"]
         /\ UNCHANGED <<file_index, peer_registry>>
    ELSE LET link == IF control.tracker_sock = "none" THEN "ok" ELSE control.link
         IN  \/ /\ link = "ok"
                /\ \E files \in shared_files_info(metadata) :
                      LET after == handle_register(file_index, peer_registry,
                                       peer_ip(ThisPeer),
                                       [peer_id |-> ThisPeer, port |-> peer_port(ThisPeer),
                                        files |-> files])
                      IN  /\ file_index' = after.file_index
                          /\ peer_registry' = after.peer_registry
                \* the reply arrives, or the 10 s timeout of recv expires first
                /\ \E exchange \in {"ok", "recv_failed"} :
                      control' = [control EXCEPT !.tracker_sock = "open", !.link = "ok",
                                                 !.last_exchange = exchange]
             \/ /\ link = "dead"
                \* the send is accepted and no reply comes: receive_message
                \* returns None, the socket stays
                /\ \E after \in (IF control.tracker_up THEN {"broken"}
                                 ELSE {"dead", "broken"}) :
                      control' = [control EXCEPT !.link = after,
                                                 !.last_exchange = "recv_failed"]
                /\ UNCHANGED <<file_index, peer_registry>>
             \/ /\ link = "broken"
                \* sendall raises: the socket is closed and set to None
                /\ control' = [control EXCEPT !.tracker_sock = "none", !.link = "none",
                                              !.last_exchange = "send_failed"]
                /\ UNCHANGED <<file_index, peer_registry>>

\* web_app.start_peer_background, lines 52-54: the registration repeated every 30 s
RegisterTick ==
    /\ peer_register(file_metadata)
    /\ UNCHANGED <<conn, registered_on, history_vars, store_vars>>
    /\ UNCHANGED <<origin, job, reputation, rep_log, completed, downloads, framing_vars,
                   split, rep_vars, callers, pipe, svc_vars>>

\* Peer.share_file, lines 133-148: add_file_to_share, then register_with_tracker
ShareFile ==
    /\ \E path \in LocalPaths, cs \in ChunkSizes :
          /\ add_file_to_share(path, cs, TRUE)
          /\ peer_register(file_metadata')
    /\ UNCHANGED <<conn, registered_on, history_vars>>
    /\ UNCHANGED <<origin, job, reputation, rep_log, completed, downloads, framing_vars,
                   split, rep_vars, callers, pipe, svc_vars>>

\* the tracker process stops: its index and registry are lost with it
TrackerDown ==
    /\ control.tracker_up
    /\ control.outages < MaxOutages
    /\ control' = [control EXCEPT !.tracker_up = FALSE, !.stale = FALSE,
                                  !.outages = @ + 1,
                                  !.link = IF @ = "ok" THEN "dead" ELSE @]
    /\ file_index' = EmptyMap
    /\ peer_registry' = EmptyMap
    /\ UNCHANGED <<conn, registered_on, history_vars, store_vars>>
    /\ UNCHANGED <<origin, job, reputation, rep_log, completed, downloads, framing_vars,
                   split, rep_vars, callers, pipe, svc_vars>>

\* a tracker process is started (tracker.main)
TrackerUp ==
    /\ ~control.tracker_up
    /\ control' = [control EXCEPT !.tracker_up = TRUE]
    /\ UNCHANGED <<tracker_vars, store_vars>>
    /\ UNCHANGED <<origin, job, reputation, rep_log, completed, downloads, framing_vars,
                   split, rep_vars, callers, pipe, svc_vars>>

\* the network drops the connection while the tracker keeps running: its
\* handle_client thread for the connection is still there
LinkDrop ==
    /\ control.tracker_up
    /\ control.link = "ok"
    /\ control.outages < MaxOutages
    /\ control' = [control EXCEPT !.link = "dead", !.stale = TRUE, !.outages = @ + 1]
    /\ UNCHANGED <<tracker_vars, store_vars>>
    /\ UNCHANGED <<origin, job, reputation, rep_log, completed, downloads, framing_vars,
                   split, rep_vars, callers, pipe, svc_vars>>

\* handle_client, lines 213-221: the handler of the dropped connection gets
\* the socket error and deregisters the peer id it saw
StaleHandlerCloses ==
    /\ control.stale
    /\ control' = [control EXCEPT !.stale = FALSE]
    /\ peer_registry' = deregister_peer(peer_registry, ThisPeer)
    /\ file_index' = deregister_index(file_index, ThisPeer)
    /\ UNCHANGED <<conn, registered_on, history_vars, store_vars>>
    /\ UNCHANGED <<origin, job, reputation, rep_log, completed, downloads, framing_vars,
                   split, rep_vars, callers, pipe, svc_vars>>

ControlNext ==
    \/ RegisterTick
    \/ ShareFile
    \/ TrackerDown
    \/ TrackerUp
    \/ LinkDrop
    \/ StaleHandlerCloses

(***************************************************************************)
(* The control socket used by several threads (web_app.py): the periodic   *)
(* registration and share_file both run register_with_tracker on          *)
(* Peer.tracker_sock, which no lock protects                               *)
(***************************************************************************)
\* number of requests sent on the control socket in one run
MaxRequests == 3

\* network_utils.register_with_tracker, line 77: send_message
CtlSend(t) ==
    /\ callers[t].pc = "idle"
    /\ pipe.sent < MaxRequests
    /\ pipe' = [pipe EXCEPT !.sent = @ + 1, !.to_tracker = Append(@, pipe.sent + 1)]
    /\ callers' = [callers EXCEPT ![t] = [pc |-> "sent", request |-> pipe.sent + 1,
                                          reply_to |-> 0]]
    /\ UNCHANGED <<tracker_vars, store_vars, control, svc_vars>>
    /\ UNCHANGED <<origin, job, reputation, rep_log, completed, downloads, framing_vars,
                   split, rep_vars>>

\* handle_client, lines 175-204: one request is received, handle_register
\* runs, the reply is sent
TrackerReply ==
    /\ pipe.to_tracker # <<>>
    /\ pipe' = [pipe EXCEPT !.to_tracker = Tail(@),
                            !.to_peer = Append(@, Head(pipe.to_tracker))]
    /\ \E files \in shared_files_info(file_metadata) :
          LET after == handle_register(file_index, peer_registry, peer_ip(ThisPeer),
                                       [peer_id |-> ThisPeer, port |-> peer_port(ThisPeer),
                                        files |-> files])
          IN  /\ file_index' = after.file_index
              /\ peer_registry' = after.peer_registry
    /\ UNCHANGED <<conn, registered_on, history_vars, store_vars, control, callers,
                   svc_vars>>
    /\ UNCHANGED <<origin, job, reputation, rep_log, completed, downloads, framing_vars,
                   split, rep_vars>>

\* network_utils.register_with_tracker, line 78: receive_message.  One recv
\* returns what has arrived: one reply, or several replies at once, which
\* json.loads rejects (None); with nothing there within 10 s, the timeout (None)
CtlRecv(t) ==
    /\ callers[t].pc = "sent"
    /\ IF pipe.to_peer = <<>>
       THEN /\ callers' = [callers EXCEPT ![t].pc = "idle", ![t].reply_to = 0]
            /\ UNCHANGED pipe
       ELSE \E k \in 1..Len(pipe.to_peer) :
               /\ callers' = [callers EXCEPT ![t].pc = "idle",
                                  ![t].reply_to = IF k = 1 THEN Head(pipe.to_peer) ELSE 0]
               /\ pipe' = [pipe EXCEPT !.to_peer = SubSeq(@, k + 1, Len(@))]
    /\ UNCHANGED <<tracker_vars, store_vars, control, svc_vars>>
    /\ UNCHANGED <<origin, job, reputation, rep_log, completed, downloads, framing_vars,
                   split, rep_vars>>

SharedSocketNext ==
    \/ \E t \in CtlThreads : CtlSend(t)
    \/ TrackerReply
    \/ \E t \in CtlThreads : CtlRecv(t)

(***************************************************************************)
(* Requests on the tracker's end of a control connection (tracker.py,      *)
(* handle_client).  A request is the JSON text "{" ... "}" of some length; *)
(* its bytes arrive in the order sent, in any segmentation.                *)
(***************************************************************************)
\* config.yaml tracker.buffer_size, in bytes
TrackerBufferSize == 4

\* longest request, in bytes: a register with a long files list exceeds the buffer
MaxRequestLen == 5

\* json.dumps of a request of len bytes
request_bytes(len) == [k \in 1..len |-> IF k = 1 THEN "{" ELSE IF k = len THEN "}" ELSE "f"]

\* json.loads(data) succeeds: data is exactly one complete JSON document
json_loads_ok(data) ==
    /\ Len(data) >= 2
    /\ data[1] = "{"
    /\ data[Len(data)] = "}"
    /\ \A k \in 2..(Len(data) - 1) : data[k] = "f"

\* send_message, line 22: sendall of one request
SendRequest(len) ==
    /\ tracker_rx.sent < MaxRequests
    /\ tracker_rx' = [tracker_rx EXCEPT !.sent = @ + 1,
                                         !.inbound = @ \o request_bytes(len)]
    /\ UNCHANGED <<tracker_vars, store_vars, control, callers, pipe, locks>>
    /\ UNCHANGED <<origin, job, reputation, rep_log, completed, downloads, framing_vars,
                   split, rep_vars>>

\* handle_client, lines 175-211: one pass of the loop - conn.recv(buffer_size)
\* returns some of the bytes that have arrived, json.loads is applied to them,
\* a parsed register is handled, and one reply is sent: the handler's response,
\* or "Invalid JSON"
HandleRecv ==
    /\ tracker_rx.inbound # <<>>
    /\ \E k \in 1..Len(tracker_rx.inbound) :
          /\ k <= TrackerBufferSize
          /\ LET data == SubSeq(tracker_rx.inbound, 1, k)
                 rest == SubSeq(tracker_rx.inbound, k + 1, Len(tracker_rx.inbound))
             IN  IF json_loads_ok(data)
                 THEN /\ tracker_rx' = [tracker_rx EXCEPT !.inbound = rest,
                                            !.processed = @ + 1,
                                            !.replies = Append(@, "success")]
                      /\ LET after == handle_register(file_index, peer_registry,
                                          peer_ip(ThisPeer),
                                          [peer_id |-> ThisPeer,
                                           port |-> peer_port(ThisPeer), files |-> <<>>])
                         IN  /\ file_index' = after.file_index
                             /\ peer_registry' = after.peer_registry
                 ELSE /\ tracker_rx' = [tracker_rx EXCEPT !.inbound = rest,
                                            !.replies = Append(@, "error")]
                      /\ UNCHANGED <<file_index, peer_registry>>
    /\ UNCHANGED <<conn, registered_on, history_vars, store_vars, control, callers, pipe,
                   locks>>
    /\ UNCHANGED <<origin, job, reputation, rep_log, completed, downloads, framing_vars,
                   split, rep_vars>>

TrackerFramingNext ==
    \/ \E len \in 2..MaxRequestLen : SendRequest(len)
    \/ HandleRecv

(***************************************************************************)
(* The tracker's two mutexes (tracker.py, lines 36-37).  Each handler is   *)
(* followed from one "with lock:" to the next: acquiring blocks while the  *)
(* lock is held, the body runs with the lock held, leaving the block       *)
(* releases it.                                                            *)
(***************************************************************************)
\* number of commands handled in one run
MaxHandlerCalls == 4

\* the peer a handler thread serves
lock_peer(t) == IF t = "h2" THEN "p2" ELSE "p1"

\* the register payload and the query of a handler thread
lock_payload(t) ==
    [peer_id |-> lock_peer(t), port |-> 6000,
     files |-> <<get_file_metadata("a.txt", <<0>>, 1)>>]

lock_query == get_file_hash(<< <<0>> >>)

\* handle_query_file with peer_lock taken first and index_lock inside it
lock_order_query_reversed ==
    <<"peer_lock", "index_lock">>

\* handle_query_file, lines 89 and 105: index_lock, and peer_lock inside it
lock_order_query ==
    <<"index_lock", "peer_lock">>

\* threading.Lock.acquire by thread t
acquire(l, t, next_pc) ==
    /\ locks.held[l] = None
    /\ locks' = [locks EXCEPT !.held[l] = t, !.pc[t] = next_pc]

\* handle_client, lines 193-196 and 215-217: a command is dispatched to its handler
StartHandler(t, command) ==
    /\ locks.pc[t] = "idle"
    /\ locks.calls < MaxHandlerCalls
    /\ locks' = [locks EXCEPT !.pc[t] = command, !.calls = @ + 1]
    /\ UNCHANGED <<tracker_vars, store_vars, control, callers, pipe, tracker_rx>>
    /\ UNCHANGED <<origin, job, reputation, rep_log, completed, downloads, framing_vars,
                   split, rep_vars>>

\* handle_register line 53, handle_deregister line 138: with peer_lock
LockPeer(t) ==
    /\ locks.pc[t] \in {"register", "deregister"}
    /\ acquire("peer_lock", t, locks.pc[t] \o "_peer")
    /\ UNCHANGED <<tracker_vars, store_vars, control, callers, pipe, tracker_rx>>
    /\ UNCHANGED <<origin, job, reputation, rep_log, completed, downloads, framing_vars,
                   split, rep_vars>>

\* handle_register lines 54-55, handle_deregister lines 139-141: the body under
\* peer_lock, and the release at the end of the block
PeerSection(t) ==
    /\ locks.pc[t] \in {"register_peer", "deregister_peer"}
    /\ peer_registry' =
          IF locks.pc[t] = "register_peer"
          THEN register_peer(peer_registry, lock_peer(t), <<"ip1", lock_payload(t).port>>)
          ELSE deregister_peer(peer_registry, lock_peer(t))
    /\ locks' = [locks EXCEPT !.held["peer_lock"] = None,
                              !.pc[t] = IF @ = "register_peer" THEN "register_unlocked"
                                        ELSE "deregister_unlocked"]
    /\ UNCHANGED <<file_index, conn, registered_on, history_vars>>
    /\ UNCHANGED <<store_vars, control, callers, pipe, tracker_rx>>
    /\ UNCHANGED <<origin, job, reputation, rep_log, completed, downloads, framing_vars,
                   split, rep_vars>>

\* handle_register line 57, handle_deregister line 143: with index_lock
LockIndex(t) ==
    /\ locks.pc[t] \in {"register_unlocked", "deregister_unlocked"}
    /\ acquire("index_lock", t, IF locks.pc[t] = "register_unlocked" THEN "register_index"
                                ELSE "deregister_index")
    /\ UNCHANGED <<tracker_vars, store_vars, control, callers, pipe, tracker_rx>>
    /\ UNCHANGED <<origin, job, reputation, rep_log, completed, downloads, framing_vars,
                   split, rep_vars>>

\* handle_register lines 58-70, handle_deregister lines 144-155: the body under
\* index_lock, the release, and the return
IndexSection(t) ==
    /\ locks.pc[t] \in {"register_index", "deregister_index"}
    /\ file_index' =
          IF locks.pc[t] = "register_index"
          THEN index_files(file_index, lock_peer(t), lock_payload(t).files)
          ELSE deregister_index(file_index, lock_peer(t))
    /\ locks' = [locks EXCEPT !.held["index_lock"] = None, !.pc[t] = "idle",
                              !.response[t] = IF locks.pc[t] = "register_index"
                                              THEN "Registered successfully" ELSE "none"]
    /\ UNCHANGED <<peer_registry, conn, registered_on, history_vars>>
    /\ UNCHANGED <<store_vars, control, callers, pipe, tracker_rx>>
    /\ UNCHANGED <<origin, job, reputation, rep_log, completed, downloads, framing_vars,
                   split, rep_vars>>

\* handle_query_file line 89: the outer with block
QueryLockOuter(t) ==
    /\ locks.pc[t] = "query_file"
    /\ acquire(lock_order_query[1], t, "query_outer")
    /\ UNCHANGED <<tracker_vars, store_vars, control, callers, pipe, tracker_rx>>
    /\ UNCHANGED <<origin, job, reputation, rep_log, completed, downloads, framing_vars,
                   split, rep_vars>>

\* handle_query_file lines 90-92: the hash is not indexed; return leaves the block
QueryNotFound(t) ==
    /\ locks.pc[t] = "query_outer"
    /\ lock_query \notin DOMAIN file_index
    /\ locks' = [locks EXCEPT !.held[lock_order_query[1]] = None, !.pc[t] = "idle",
                              !.response[t] = "File not found"]
    /\ UNCHANGED <<tracker_vars, store_vars, control, callers, pipe, tracker_rx>>
    /\ UNCHANGED <<origin, job, reputation, rep_log, completed, downloads, framing_vars,
                   split, rep_vars>>

\* handle_query_file line 105: the inner with block
QueryLockInner(t) ==
    /\ locks.pc[t] = "query_outer"
    /\ lock_query \in DOMAIN file_index
    /\ acquire(lock_order_query[2], t, "query_inner")
    /\ UNCHANGED <<tracker_vars, store_vars, control, callers, pipe, tracker_rx>>
    /\ UNCHANGED <<origin, job, reputation, rep_log, completed, downloads, framing_vars,
                   split, rep_vars>>

\* handle_query_file lines 106-122: the peers are collected, the inner block and
\* then the outer block are left, the reply is returned
QueryReply(t) ==
    /\ locks.pc[t] = "query_inner"
    /\ \E reply \in handle_query_file(file_index, peer_registry, lock_query) :
          locks' = [locks EXCEPT !.held = [l \in DOMAIN @ |-> IF @[l] = t THEN None ELSE @[l]],
                                 !.pc[t] = "idle",
                                 !.response[t] = IF reply.status = "success" THEN "success"
                                                 ELSE reply.message]
    /\ UNCHANGED <<tracker_vars, store_vars, control, callers, pipe, tracker_rx>>
    /\ UNCHANGED <<origin, job, reputation, rep_log, completed, downloads, framing_vars,
                   split, rep_vars>>

\* a step of a handler that is inside a command
HandlerStep ==
    \/ \E t \in LockThreads : LockPeer(t)
    \/ \E t \in LockThreads : PeerSection(t)
    \/ \E t \in LockThreads : LockIndex(t)
    \/ \E t \in LockThreads : IndexSection(t)
    \/ \E t \in LockThreads : QueryLockOuter(t)
    \/ \E t \in LockThreads : QueryNotFound(t)
    \/ \E t \in LockThreads : QueryLockInner(t)
    \/ \E t \in LockThreads : QueryReply(t)

LocksNext ==
    \/ \E t \in LockThreads, command \in {"register", "query_file", "deregister"} :
          StartHandler(t, command)
    \/ HandlerStep

\* Peer.share_file, lines 133-148, on the peer's own copy of the swarm's file:
\* add_file_to_share, then register_with_tracker
ShareOwnCopy ==
    /\ job.pc \in {"idle", "done"}
    /\ \E path \in LocalPaths, saved \in BOOLEAN :
          /\ local_file(path) = origin.content
          /\ add_file_to_share(path, origin.chunk_size, saved)
    /\ \E files \in shared_files_info(file_metadata') :
          LET after == handle_register(file_index, peer_registry, peer_ip(Downloader),
                                       [peer_id |-> Downloader,
                                        port |-> peer_port(Downloader),
                                        files |-> files])
          IN  /\ file_index' = after.file_index
              /\ peer_registry' = after.peer_registry
    /\ UNCHANGED <<conn, registered_on, history_vars>>
    /\ UNCHANGED <<origin, job, reputation, rep_log, completed, downloads>>
    /\ UNCHANGED <<framing_vars, util_vars>>

DownloadNext ==
    \/ StartDownload
    \/ FetchChunk
    \/ CommitChunk
    \/ AbortDownload
    \/ FinalizeDownload

\* a peer that shares its copy of the file and downloads the same file
SelfDownloadNext ==
    \/ DownloadNext
    \/ ShareOwnCopy

\* the Peer object used for downloads and registrations in any order
PeerApiNext ==
    \/ DownloadNext
    \/ RegisterWithTracker

vars == <<tracker_vars, store_vars, peer_vars>>

TrackerInit == TrackerFresh /\ StoreFresh /\ PeerFresh

StoreInit == TrackerFresh /\ StoreFresh /\ PeerFresh

SpecTracker == TrackerInit /\ [][TrackerNext]_vars

SpecTrackerSeq == TrackerInit /\ [][TrackerSeqNext]_vars

SpecStore == StoreInit /\ [][StoreNext]_vars

SpecDownload == DownloadInit /\ [][DownloadNext]_vars

ReputationInit == TrackerFresh /\ StoreFresh /\ PeerFresh

SpecReputation == ReputationInit /\ [][ReputationNext]_vars

FramingInit == TrackerFresh /\ StoreFresh /\ PeerFresh

SpecFraming == FramingInit /\ [][FramingNext]_vars

SpecSplit == SplitInit /\ [][SplitNext]_vars

SpecPeerApi == DownloadInit /\ [][PeerApiNext]_vars

SpecTrackerFraming == ReputationInit /\ [][TrackerFramingNext]_vars

\* a handler thread that can run is scheduled
SpecLocks == ReputationInit /\ [][LocksNext]_vars /\ WF_vars(HandlerStep)

SpecStoreCrash == StoreInit /\ [][StoreCrashNext]_vars

SpecChunkReply == FramingInit /\ [][ChunkReplyNext]_vars

SpecSelfDownload == DownloadInit /\ [][SelfDownloadNext]_vars

SpecSharedSocket == ReputationInit /\ [][SharedSocketNext]_vars

\* the registration loop keeps running
SpecControl == ReputationInit /\ [][ControlNext]_vars /\ WF_vars(RegisterTick)

\* the requesting thread keeps running
SpecStream == FramingInit /\ [][StreamNext]_vars /\ WF_vars(ReceiveHeader)

SpecReputationConc == ReputationInit /\ [][ReputationConcNext]_vars

(***************************************************************************)
(* Tracker properties                                                      *)
(***************************************************************************)
\* no handler is inside handle_register or handle_deregister
TrackerQuiescent == \A c \in Conns : conn[c].pc \in {"free", "open"}

IndexedPeers == UNION {file_index[h].peers : h \in DOMAIN file_index}

\* C5: tracker consistency under concurrent handlers - whenever no register or
\* deregister is in progress, every peer id in a file entry's peer set is a
\* key of peer_registry (the claim asserts this of every reachable state, for
\* every interleaving of handlers on different connections)
C5_IndexedPeersRegistered ==
    TrackerQuiescent => IndexedPeers \subseteq DOMAIN peer_registry

\* C6: a peer id is present at the tracker only while the connection it
\* registered on is open: every id in the registry or the index was registered
\* by a handler that has not finished, and no id registered on a connection
\* that is still open and idle has been removed from the registry
C6_PresentOnlyWhileConnected ==
    /\ \A id \in (DOMAIN peer_registry) \cup IndexedPeers :
          \E c \in Conns : conn[c].pc # "free" /\ id \in registered_on[c]
    /\ \A c \in Conns :
          conn[c].pc = "open" => registered_on[c] \subseteq DOMAIN peer_registry

\* C10: re-registration is idempotent - a register that repeats the register
\* run just before it (same connection address, peer id, port and descriptors)
\* leaves the registry and the index exactly as they were, with the peer id
\* in the peer set of every announced file
C10_ReRegisterIdempotent ==
    [][last_register # <<>> =>
          LET payload == last_register[1].payload
          IN  \A c \in Conns :
                 (conn_ip(c) = last_register[1].ip /\ SeqRegister(c, payload))
                 => /\ file_index' = file_index
                    /\ peer_registry' = peer_registry
                    /\ \A k \in 1..Len(payload.files) :
                          payload.peer_id \in file_index'[payload.files[k].hash].peers]_vars

\* a register of some file has just been run twice in a row
C10_Witness ==
    /\ re_registered
    /\ last_register # <<>>
    /\ last_register[1].payload.files # <<>>
    /\ last_register[1].payload.peer_id \in IndexedPeers

\* the ids and addresses a successful query reply lists
reply_ids(reply) == {reply.peers[k].id : k \in DOMAIN reply.peers}

\* C11: query_file(H) replies "File not found" when H has no index entry;
\* otherwise it returns exactly the ids of file_index[H].peers that are in
\* peer_registry, each once and with its registered (ip, port), or the error
\* "File found, but no active peers available" when there is none; and no
\* reply lists an id unless a connection it registered on is still open
C11_QueryReply ==
    \A h \in TrackerHashes :
       \A reply \in handle_query_file(file_index, peer_registry, h) :
          LET active == IF h \in DOMAIN file_index
                        THEN file_index[h].peers \cap DOMAIN peer_registry ELSE {}
          IN  /\ h \notin DOMAIN file_index
                    => reply = [status |-> "error", message |-> "File not found"]
              /\ (h \in DOMAIN file_index /\ active = {})
                    => reply = [status |-> "error",
                                message |-> "File found, but no active peers available"]
              /\ (h \in DOMAIN file_index /\ active # {})
                    => /\ reply.status = "success"
                       /\ reply_ids(reply) = active
                       /\ Len(reply.peers) = Cardinality(active)
                       /\ \A k \in DOMAIN reply.peers :
                             <<reply.peers[k].ip, reply.peers[k].port>>
                                = peer_registry[reply.peers[k].id]
              /\ reply.status = "success"
                    => \A id \in reply_ids(reply) :
                          \E c \in Conns : conn[c].pc # "free" /\ id \in registered_on[c]

\* C13: the tracker has an index entry for H exactly while some peer advertises
\* H - after every completed register or deregister no entry has an empty peer
\* set, and a deregister removes exactly the entries whose last advertising
\* peer it removed
C13_EntriesHaveAdvertisers ==
    [][/\ \A h \in DOMAIN file_index' : file_index'[h].peers # {}
       /\ \A c \in Conns :
             (SeqClose(c) /\ conn[c].peer_id # None)
                => \A h \in DOMAIN file_index :
                      (h \notin DOMAIN file_index')
                         <=> (file_index[h].peers \subseteq {conn[c].peer_id})]_vars

\* the last advertising peer of a file was deregistered and the entry is gone,
\* while another file is still advertised
C13_Witness ==
    /\ last_pruned # {}
    /\ file_index # EmptyMap
    /\ \A h \in last_pruned : h \notin DOMAIN file_index

(***************************************************************************)
(* Chunk store properties                                                  *)
(***************************************************************************)
chunk_file_exists(file_hash, chunk_index) == <<file_hash, chunk_index>> \in DOMAIN chunk_files

\* for every index of the descriptor, the chunk file or a seed source pointer
all_chunks_present(file_hash) ==
    \A i \in range(file_metadata[file_hash].chunk_count) :
        chunk_file_exists(file_hash, i) \/ file_hash \in DOMAIN file_locations

\* C7: chunk bitmap monotonicity - no step (add_file_to_share,
\* add_downloading_file, store_chunk, reload at restart) removes an index from
\* the bitmap of a tracked file
C7_BitmapMonotone ==
    [][\A h \in DOMAIN chunk_tracker :
          h \in DOMAIN chunk_tracker' /\ chunk_tracker[h] \subseteq chunk_tracker'[h]]_vars

\* C8 as claimed: the bitmap of H is complete if and only if every chunk file
\* H.i exists in the downloads directory or a seed source pointer exists
C8_CompleteIffPresent ==
    \A h \in DOMAIN file_metadata : is_download_complete(h) <=> all_chunks_present(h)

\* C8 amended: a complete bitmap implies that every chunk file exists or a
\* seed source pointer exists, and a seed source pointer implies a complete
\* bitmap; chunk files alone do not imply a complete bitmap
C8_CompleteImpliesPresent ==
    \A h \in DOMAIN file_metadata :
        /\ is_download_complete(h) => all_chunks_present(h)
        /\ h \in DOMAIN file_locations => is_download_complete(h)

\* a download whose chunks were all stored: complete without a seed pointer
C8_Witness ==
    \E h \in DOMAIN file_metadata :
        /\ h \notin DOMAIN file_locations
        /\ file_metadata[h].chunk_count > 0
        /\ is_download_complete(h)
        /\ \A i \in range(file_metadata[h].chunk_count) : chunk_file_exists(h, i)

\* C9: the owned chunk indices of a tracked file are a subset of
\* {0..chunk_count-1} after store_chunk calls with any index, and the file is
\* complete iff the set equals {0..chunk_count-1}
C9_BitmapInRange ==
    \A h \in DOMAIN file_metadata :
        /\ chunk_tracker[h] \subseteq range(file_metadata[h].chunk_count)
        /\ is_download_complete(h) <=> chunk_tracker[h] = range(file_metadata[h].chunk_count)

(***************************************************************************)
(* Download properties (checked under SpecDownload)                        *)
(***************************************************************************)
\* the digest the downloader asks for
H == get_file_hash(<<origin.content>>)

\* the bitmap of H at the downloader
bitmap_of_H == IF H \in DOMAIN chunk_tracker THEN chunk_tracker[H] ELSE {}

\* C1: during a download, index i enters the bitmap of H only with a payload
\* whose SHA-256 equals chunk_hashes[i]: every chunk the bitmap lists is on disk
\* with the digest the sharer computed for that index (runs without local I/O
\* errors)
C1_StoredChunksVerified ==
    io_errors = 0 =>
        \A i \in bitmap_of_H :
            /\ <<H, i>> \in DOMAIN chunk_files
            /\ i + 1 <= Len(origin_meta.chunk_hashes)
            /\ verify_chunk_data(chunk_files[<<H, i>>], origin_meta.chunk_hashes[i + 1])

\* C2: when the tracker's peer list for H holds an honest peer with every chunk,
\* a download that has ended (without local I/O errors) ended as complete,
\* whatever the other listed peers answered
C2_HonestHolderCompletes ==
    (HonestSeeder \in origin.seeders /\ job.pc = "done" /\ io_errors = 0)
        => job.status = "success"

\* C3: whenever a download of H has ended successfully, the reassembled output
\* file exists and its whole-file SHA-256 equals H
C3_SuccessMeansDigestMatches ==
    job.status = "success"
        => /\ job.name \in DOMAIN completed
           /\ get_file_hash(<<completed[job.name]>>) = job.file_hash

\* C3 witness: a download of a file of several chunks ended successfully and the
\* downloader is announced as a holder of H
C3_Witness ==
    /\ job.status = "success"
    /\ job.chunk_count >= 2
    /\ job.name \in DOMAIN completed
    /\ job.file_hash \in DOMAIN file_index
    /\ Downloader \in file_index[job.file_hash].peers

\* C4: on a cooperative swarm of the sharer A and the downloader B, B's download
\* of H ends with every chunk fetched and an output file byte-identical to A's
\* original
C4_RoundTrip ==
    (origin.seeders = {HonestSeeder} /\ job.pc = "done" /\ io_errors = 0)
        => /\ job.status = "success"
           /\ bitmap_of_H = range(origin_meta.chunk_count)
           /\ job.name \in DOMAIN completed
           /\ completed[job.name] = origin.content

\* C12: a successful query_file reply carries the chunk_hashes registered for H,
\* so the descriptor the downloader builds from it lists exactly chunk_count
\* digests, the expected digest of every chunk index
C12_DescriptorHasChunkHashes ==
    (job.pc # "idle" /\ job.status # "query_failed")
        => /\ \A reply \in handle_query_file(file_index, peer_registry, H) :
                 reply.status = "success"
                    => /\ "chunk_hashes" \in DOMAIN reply
                       /\ reply.chunk_hashes = origin_meta.chunk_hashes
           /\ H \in DOMAIN file_metadata
           /\ Len(file_metadata[H].chunk_hashes) = file_metadata[H].chunk_count
           /\ file_metadata[H].chunk_hashes = origin_meta.chunk_hashes

(***************************************************************************)
(* Reputation properties (checked under SpecReputation)                    *)
(***************************************************************************)
\* the score equals the fraction n / d
score_is(score, n, d) == score.num * d = n * pow5(score.exp)

\* the scores the update law gives for the event sequences of the unit test
reputation_examples ==
    \A p \in RepPeers :
       LET score == get_reputation(reputation, p)
       IN  /\ rep_log[p] = <<>> => score_is(score, 10, 1)
           /\ rep_log[p] = <<"SUCCESSFUL_UPLOAD">> => score_is(score, 86, 10)
           /\ rep_log[p] = <<"SUCCESSFUL_UPLOAD", "VERIFIED_INTEGRITY">>
                 => score_is(score, 728, 100)
           /\ rep_log[p] = <<"SUCCESSFUL_UPLOAD", "VERIFIED_INTEGRITY", "CORRUPTED_DATA">>
                 => score_is(score, 4824, 1000)
           /\ rep_log[p] = <<"CORRUPTED_DATA">> => score_is(score, 7, 1)

\* C14: for a known event update(peer, event) sets the score to
\* 0.8 * old + 0.2 * delta(event), old being 10 for a peer without record, and
\* raises the interaction counter by exactly 1; from the default,
\* SUCCESSFUL_UPLOAD gives 8.6, then VERIFIED_INTEGRITY 7.28, then
\* CORRUPTED_DATA 4.824, and a single CORRUPTED_DATA gives 7.0; an unknown
\* event name changes neither score nor counter
C14_UpdateLaw ==
    [][/\ \A p \in RepPeers, e \in EventNames :
             UpdateReputation(p, e) =>
                IF e \in DOMAIN REPUTATION_RULES
                THEN LET old == get_reputation(reputation, p)
                         new == get_reputation(reputation', p)
                         delta == REPUTATION_RULES[e]
                     IN  /\ 10 * new.num * pow5(old.exp)
                               = (8 * old.num + 2 * delta * pow5(old.exp)) * pow5(new.exp)
                         /\ p \in DOMAIN reputation'
                         /\ reputation'[p].interactions =
                               (IF p \in DOMAIN reputation
                                THEN reputation[p].interactions ELSE 0) + 1
                         /\ \A q \in (DOMAIN reputation) \ {p} :
                               q \in DOMAIN reputation' /\ reputation'[q] = reputation[q]
                ELSE reputation' = reputation
       /\ reputation_examples']_vars

\* the three updates of the unit test were applied to one peer
C14_Witness ==
    \E p \in RepPeers :
       /\ rep_log[p] = <<"SUCCESSFUL_UPLOAD", "VERIFIED_INTEGRITY", "CORRUPTED_DATA">>
       /\ p \in DOMAIN reputation
       /\ reputation[p].interactions = 3

\* the peer id lists handed to get_peers_sorted_by_reputation
IdLists == UNION {[1..n -> RepPeers] : n \in 0..3}

score_eq(a, b) == score_geq(a, b) /\ score_geq(b, a)

\* C15: order(peer_ids) returns a permutation of the input ids, each paired with
\* its current score (10 for an id without record), in non-increasing score
\* order, ids of equal score in their input order; an input whose ids all have
\* the default score comes back unchanged
C15_OrderIsStableSort ==
    \A input \in IdLists :
       LET out == get_peers_sorted_by_reputation(reputation, input)
           n == Len(input)
       IN  /\ Len(out) = n
           /\ \E pi \in {f \in [1..n -> 1..n] : \A i, j \in 1..n : f[i] = f[j] => i = j} :
                 /\ \A k \in 1..n : out[k][1] = input[pi[k]]
                 /\ \A k, l \in 1..n :
                       (k < l /\ score_eq(out[k][2], out[l][2])) => pi[k] < pi[l]
           /\ \A k \in 1..n :
                 /\ out[k][1] \in DOMAIN reputation
                       => out[k][2] = [num |-> reputation[out[k][1]].num,
                                       exp |-> reputation[out[k][1]].exp]
                 /\ out[k][1] \notin DOMAIN reputation => score_is(out[k][2], 10, 1)
           /\ \A k \in 1..(n - 1) : score_geq(out[k][2], out[k + 1][2])
           /\ (\A k \in 1..n : score_is(get_reputation(reputation, input[k]), 10, 1))
                 => \A k \in 1..n : out[k][1] = input[k]

\* two peers with records of equal score and a peer without record: the sort of
\* <<p, q, r>> moves r to the front and keeps p before q
C15_Witness ==
    \E p, q, r \in RepPeers :
       /\ p # q /\ p \in DOMAIN reputation /\ q \in DOMAIN reputation
       /\ r \notin DOMAIN reputation
       /\ score_eq(get_reputation(reputation, p), get_reputation(reputation, q))
       /\ LET out == get_peers_sorted_by_reputation(reputation, <<p, q, r>>)
          IN  /\ out[1][1] = r /\ out[2][1] = p /\ out[3][1] = q

(***************************************************************************)
(* Reputation in a download (checked under SpecDownload)                   *)
(***************************************************************************)
\* every peer asked so far delivered, every stored chunk has the digest the
\* sharer computed, and no local write failed
honest_swarm_so_far ==
    /\ io_errors = 0
    /\ \A q \in RepPeers : \A k \in DOMAIN rep_log[q] :
          rep_log[q][k] = "SUCCESSFUL_DOWNLOAD"
    /\ \A i \in bitmap_of_H :
          /\ <<H, i>> \in DOMAIN chunk_files
          /\ i + 1 <= Len(origin_meta.chunk_hashes)
          /\ verify_chunk_data(chunk_files[<<H, i>>], origin_meta.chunk_hashes[i + 1])

C17_ExhaustionDoesNotAbort ==
    (job.pc = "done" /\ job.status # "query_failed")
        => Len(job.missing_chunks) <= 1

(***************************************************************************)
(* Chunk framing properties (checked under SpecFraming)                    *)
(***************************************************************************)
\* C18: for a server that sends a success header followed by L payload bytes,
\* however the stream is split across reads and whatever the payload bytes
\* are, the requester returns exactly the L payload bytes the server sent
C18_ReturnsPayloadSent ==
    rx.pc = "done" => rx.result = <<rx.payload>>

(***************************************************************************)
(* Chunking properties (checked under SpecSplit)                           *)
(***************************************************************************)
\* the smallest n with n * d >= a
ceil_div(a, d) == (a + d - 1) \div d

\* C19: for every file of size >= 0 and every chunk_size >= 1, the descriptor
\* produced when sharing or splitting the file has chunk_count =
\* ceil(size / chunk_size) and exactly chunk_count chunk_hashes, chunk i being
\* the chunk_size bytes at offset i * chunk_size, except the last, which has
\* size - (chunk_count - 1) * chunk_size bytes
C19_DescriptorChunks ==
    split.meta # <<>> =>
       LET meta == split.meta[1]
           size == Len(origin.content)
           cs == origin.chunk_size
           N == ceil_div(size, cs)
           chunk(i) == read_chunk_from_file(origin.content, i, cs)
       IN  /\ meta.size = size
           /\ meta.chunk_count = N
           /\ Len(meta.chunk_hashes) = N
           /\ \A i \in 0..(N - 1) :
                 /\ Len(chunk(i)) = IF i < N - 1 THEN cs ELSE size - (N - 1) * cs
                 /\ Len(chunk(i)) >= 1
                 /\ meta.chunk_hashes[i + 1] = sha256(chunk(i))
                 /\ (split.pc = "split" /\ i \notin split.lost)
                       => /\ <<meta.hash, i>> \in DOMAIN chunk_files
                          /\ chunk_files[<<meta.hash, i>>] = chunk(i)
           /\ split.pc = "split" =>
                 \A key \in DOMAIN chunk_files : key[2] \in 0..(N - 1)

\* a file was split into several chunks, the last one shorter than chunk_size
C19_Witness ==
    /\ split.pc = "split"
    /\ split.meta[1].chunk_count >= 2
    /\ Len(origin.content) % origin.chunk_size # 0
    /\ split.lost = {}

\* C20: split and reassemble round trip - for any file and chunk size, when all
\* chunk files H.0 .. H.N-1 that split_file wrote are there, reassembling them
\* in index order succeeds and yields a file with the bytes and the whole-file
\* digest H of the original
C20_SplitReassembleRoundTrip ==
    (split.pc = "reassembled" /\ split.lost = {})
        => /\ split.success
           /\ "reassembled_file.txt" \in DOMAIN completed
           /\ completed["reassembled_file.txt"] = origin.content
           /\ get_file_hash(<<completed["reassembled_file.txt"]>>) = split.meta[1].hash
           /\ verify_file_integrity(<<completed["reassembled_file.txt"]>>,
                                    get_file_hash(<<origin.content>>))

\* a file of several chunks that differ was split and reassembled
C20_Witness ==
    /\ split.pc = "reassembled"
    /\ split.lost = {}
    /\ split.success
    /\ split.meta[1].chunk_count >= 2
    /\ split.meta[1].chunk_hashes[1] # split.meta[1].chunk_hashes[2]

(***************************************************************************)
(* Missing set of the chunk store (checked under SpecStore)                *)
(***************************************************************************)
\* C21: after any sequence of add_file_to_share, add_downloading_file and
\* store_chunk, for every tracked H the missing set is {0..N-1} minus the
\* bitmap of H and is_download_complete(H) holds iff it is empty; it is empty
\* right after add_file_to_share, equals {0..N-1} right after
\* add_downloading_file of an untracked H, and a successful store_chunk(H, i, _)
\* removes exactly i from it
C21_MissingSet ==
    /\ [](\A h \in DOMAIN file_metadata :
            /\ h \in DOMAIN chunk_tracker
            /\ get_missing_chunks(h) = range(file_metadata[h].chunk_count) \ chunk_tracker[h]
            /\ is_download_complete(h) <=> get_missing_chunks(h) = {})
    /\ [][/\ \A path \in LocalPaths, cs \in ChunkSizes, saved \in BOOLEAN :
               add_file_to_share(path, cs, saved) =>
                  LET h == get_file_hash(<<local_file(path)>>)
                  IN  /\ get_missing_chunks(h)' = {}
                      /\ is_download_complete(h)'
          /\ \A file_meta \in DownloadDescriptors, saved \in BOOLEAN :
               (add_downloading_file(file_meta, saved)
                  /\ file_meta.hash \notin DOMAIN file_metadata) =>
                  get_missing_chunks(file_meta.hash)' = range(file_meta.chunk_count)
          /\ \A saved \in BOOLEAN, h \in StoreHashes, i \in 0..MaxChunkIndex :
               (store_call = <<[file_hash |-> h, chunk_index |-> i]>>
                  /\ store_chunk_commit(saved)) =>
                  get_missing_chunks(h)' = get_missing_chunks(h) \ {i}]_vars

\* a download in progress: one chunk stored, another still missing
C21_Witness ==
    \E h \in DOMAIN file_metadata :
        /\ h \notin DOMAIN file_locations
        /\ chunk_tracker[h] = {0}
        /\ get_missing_chunks(h) = {1}
        /\ ~is_download_complete(h)

(***************************************************************************)
(* Reputation store under concurrent callers (SpecReputationConc)          *)
(***************************************************************************)
\* the events of a log that have a rule
RECURSIVE known_events(_)
known_events(events) ==
    IF events = <<>> THEN <<>>
    ELSE IF Head(events) \in DOMAIN REPUTATION_RULES
         THEN <<Head(events)>> \o known_events(Tail(events))
         ELSE known_events(Tail(events))

\* the table after update_reputation ran for the events one after the other
RECURSIVE apply_events(_, _, _)
apply_events(table, peer_id, events) ==
    IF events = <<>> THEN table
    ELSE apply_events(update_reputation(table, peer_id, Head(events)), peer_id, Tail(events))

\* the scores update_reputation can leave for the events run in some order
sequential_scores(peer_id, events) ==
    {get_reputation(apply_events(EmptyMap, peer_id,
                                 [k \in 1..Len(events) |-> events[order[k]]]), peer_id) :
        order \in Orders(1..Len(events))}

\* C22: reputation updates are serialized - once the concurrent
\* update_reputation calls for a peer id have returned, its interaction counter
\* is the number k of events recorded and its score is the update law applied
\* to the k events in some sequential order; and the scores a concurrent
\* get_peers_sorted_by_reputation returns are those of one table the store held
\* during the call
C22_UpdatesSerialized ==
    /\ (\A t \in RepThreads : rep_call[t].pc = "idle") =>
          \A peer_id \in ConcPeers :
             LET events == known_events(rep_log[peer_id])
             IN  IF events = <<>> THEN peer_id \notin DOMAIN reputation
                 ELSE /\ peer_id \in DOMAIN reputation
                      /\ reputation[peer_id].interactions = Len(events)
                      /\ \E score \in sequential_scores(peer_id, events) :
                            score_eq(get_reputation(reputation, peer_id), score)
    /\ rep_order.pc = "done" =>
          \E table \in rep_order.seen :
             \A k \in 1..Len(rep_order.peer_scores) :
                score_eq(rep_order.peer_scores[k][2],
                         get_reputation(table, rep_order.peer_scores[k][1]))

(***************************************************************************)
(* Fetch attempts of a download (SpecDownload, SpecPeerApi)                *)
(***************************************************************************)
\* C23: a failed fetch attempt records exactly one event against the peer
\* that was tried - CONNECTION_TIMEOUT when the peer closed the connection
\* without a header (transport or protocol failure), REFUSED_UPLOAD when it
\* answered with an error-status header - and the worker goes on to the next peer
C23_FailureKindRecorded ==
    [][(/\ job.pc = "fetch"
        /\ job'.pc = "fetch"
        /\ job'.next_peer = job.next_peer + 1
        /\ job'.last_reply \in {"closed", "error"})
       => rep_log' = [rep_log EXCEPT ![job.sorted_peers[job.next_peer]] =
                        Append(@, IF job'.last_reply = "error" THEN "REFUSED_UPLOAD"
                                  ELSE "CONNECTION_TIMEOUT")]]_vars

\* the chunk file of index i holds the bytes of chunk i of the original
stored_chunk_is_original(i) ==
    /\ <<job.file_hash, i>> \in DOMAIN chunk_files
    /\ chunk_files[<<job.file_hash, i>>]
          = read_chunk_from_file(origin.content, i, origin.chunk_size)

\* C24: when a fetched chunk with the right bytes has been stored, the
\* downloader records SUCCESSFUL_DOWNLOAD and VERIFIED_INTEGRITY against the
\* peer that served it, once each: the peer's log grows by these two events and
\* its interaction counter by 2, and the chunk index is in the bitmap by then
C24_BothEventsRecorded ==
    [][(/\ job.pc = "commit"
        /\ job'.pc # "commit"
        /\ stored_chunk_is_original(Head(job.missing_chunks)))
       => /\ Head(job.missing_chunks) \in chunk_tracker'[job.file_hash]
          /\ rep_log'[job.source] \in
                {rep_log[job.source] \o <<"SUCCESSFUL_DOWNLOAD", "VERIFIED_INTEGRITY">>,
                 rep_log[job.source] \o <<"VERIFIED_INTEGRITY", "SUCCESSFUL_DOWNLOAD">>}
          /\ reputation'[job.source].interactions
                = (IF job.source \in DOMAIN reputation
                   THEN reputation[job.source].interactions ELSE 0) + 2]_vars

\* the number of requests for chunk i among the first k requests of the job
requests_before(k, i) == Cardinality({j \in 1..(k - 1) : job.contacted[j][1] = i})

\* C25: load balancing within a chunk - the requests for chunk index i go to
\* the reputation-ordered peers rotated by i mod len(peers): the first to
\* peers[i mod len], the next ones to the following peers, wrapping around
C25_RotatedByChunkIndex ==
    \A k \in 1..Len(job.contacted) :
        LET i == job.contacted[k][1]
            n == Len(job.sorted_peers)
        IN  job.contacted[k][2] = job.sorted_peers[((i + requests_before(k, i)) % n) + 1]

\* C26: the downloader never sends a chunk request to itself and never records
\* a reputation event against its own peer id, also when the tracker lists it
\* as a holder of H
C26_NeverContactsSelf ==
    /\ \A k \in 1..Len(job.contacted) : job.contacted[k][2] # Downloader
    /\ rep_log[Downloader] = <<>>
    /\ Downloader \notin DOMAIN reputation

\* within one job no chunk index is requested twice from the same peer, and
\* every request is for a chunk of the work set to a peer of the list
requests_at_most_once ==
    /\ \A j, k \in 1..Len(job.contacted) : j # k => job.contacted[j] # job.contacted[k]
    /\ \A k \in 1..Len(job.contacted) :
          /\ job.contacted[k][1] \in range(job.chunk_count)
          /\ job.contacted[k][2] \in Range(job.sorted_peers)
    /\ Len(job.contacted) <= job.chunk_count * Len(job.sorted_peers)

\* C27: nothing is retried indefinitely - a chunk request of a download job,
\* once sent, always comes to an end (and with it the job), whatever the peer
\* at the other end does
C27_FetchTerminates == (rx.pc = "header") ~> (rx.pc = "done")

(***************************************************************************)
(* Tracker control connection (SpecControl)                                *)
(***************************************************************************)
\* the tracker lists the peer, and lists it for every file the peer tracks
registered_with_all_files ==
    /\ ThisPeer \in DOMAIN peer_registry
    /\ \A h \in DOMAIN file_metadata :
          h \in DOMAIN file_index /\ ThisPeer \in file_index[h].peers

\* once the tracker stays reachable, the re-registering peer ends up registered
\* with every file it tracks, and stays so
recovers_when_reachable == (<>[]control.tracker_up) => <>[]registered_with_all_files

\* C28: tracker loss is recovered - after a register exchange that failed (the
\* send raised, or no reply was received) the peer has closed the control
\* socket and set it to none, so that the next attempt reconnects
C28_FailedExchangeClosesSocket ==
    control.last_exchange \in {"send_failed", "recv_failed"}
        => control.tracker_sock = "none"

\* C29: on the control socket at most one request is outstanding at any time
\* (no thread sends while another waits for its reply), and the reply a caller
\* consumes is the reply to the request it sent, also after a receive that
\* timed out
C29_OneOutstandingRequest ==
    /\ Cardinality({t \in CtlThreads : callers[t].pc = "sent"}) <= 1
    /\ \A t \in CtlThreads :
          (callers[t].pc = "idle" /\ callers[t].reply_to # 0)
              => callers[t].reply_to = callers[t].request

\* C30: tracker request framing - however the bytes of the requests are split
\* across reads, once the tracker has read them all it has processed each
\* request exactly once and sent exactly one reply per request, and at no time
\* has it sent more replies than requests were sent
C30_OneReplyPerRequest ==
    /\ Len(tracker_rx.replies) <= tracker_rx.sent
    /\ tracker_rx.inbound = <<>> =>
          /\ tracker_rx.processed = tracker_rx.sent
          /\ Len(tracker_rx.replies) = tracker_rx.sent

holds(t, l) == locks.held[l] = t

\* C31: tracker lock order - no handler acquires index_lock while it holds
\* peer_lock (peer_lock is held either alone or inside index_lock), a handler
\* inside a command can always be followed by a step of some handler, and every
\* handler that started a command completes it
C31_LockOrder ==
    /\ [][\A t \in LockThreads :
            (~holds(t, "index_lock") /\ holds(t, "index_lock")') => ~holds(t, "peer_lock")]_vars
    /\ [](\A t \in LockThreads :
            (holds(t, "peer_lock") /\ holds(t, "index_lock")) => locks.pc[t] = "query_inner")
    /\ \A t \in LockThreads : (locks.pc[t] # "idle") ~> (locks.pc[t] = "idle")

\* C31: a query holds index_lock and waits for peer_lock while a register
\* holds peer_lock, and a deregister waits as well
C31_Witness ==
    /\ locks.pc["h1"] = "query_outer"
    /\ file_index # EmptyMap
    /\ locks.pc["h2"] = "register_peer"
    /\ locks.pc["h3"] = "deregister"

\* C32: store_chunk error atomicity - a store_chunk that returns False (the
\* chunk file could not be written, or the hash is not tracked) leaves every
\* bitmap and the metadata file as they were; a store_chunk that returns True
\* added its index to the bitmap of its hash in a step taken after the chunk
\* file was written, and changed no other bitmap
C32_StoreChunkAtomic ==
    [][/\ store_returned' = <<FALSE>> =>
            /\ chunk_tracker' = chunk_tracker
            /\ metadata_file' = metadata_file
            /\ file_metadata' = file_metadata
            /\ store_call' = <<>>
       /\ \A h \in StoreHashes, i \in 0..MaxChunkIndex :
            (/\ h \in DOMAIN chunk_tracker
             /\ h \in DOMAIN chunk_tracker'
             /\ i \notin chunk_tracker[h]
             /\ i \in chunk_tracker'[h]
             /\ file_locations' = file_locations
             /\ store_returned' # <<>>) =>
                /\ store_returned' = <<TRUE>>
                /\ store_call = <<[file_hash |-> h, chunk_index |-> i]>>
                /\ <<h, i>> \in DOMAIN chunk_files
                /\ chunk_files[<<h, i>>] \in StoreData
                /\ chunk_files' = chunk_files
                /\ chunk_tracker' = [chunk_tracker EXCEPT ![h] = @ \cup {i}]]_vars

\* C32: a write failed part-way - store_chunk returned False, the truncated
\* chunk file is on disk and its index is not in the bitmap
C32_Witness ==
    /\ store_returned = <<FALSE>>
    /\ io_errors > 0
    /\ \E h \in DOMAIN chunk_tracker, i \in 0..MaxChunkIndex :
          /\ <<h, i>> \in DOMAIN chunk_files
          /\ chunk_files[<<h, i>>] = <<>>
          /\ i \notin chunk_tracker[h]

\* C33: metadata persistence is atomic - the metadata file always holds a
\* complete record, and while a non-empty bitmap for a hash is on disk no step
\* (a restart included) leaves the store without that hash or with an empty
\* bitmap for it
C33_MetadataWriteAtomic ==
    /\ [](json_load_ok(metadata_file))
    /\ [][\A h \in StoreHashes :
            (/\ json_load_ok(metadata_file)
             /\ h \in DOMAIN metadata_file.chunk_tracker
             /\ metadata_file.chunk_tracker[h] # {}) =>
               /\ h \in DOMAIN chunk_tracker'
               /\ chunk_tracker'[h] # {}]_vars

\* C34: descriptor immutability in the chunk store - no add_file_to_share,
\* add_downloading_file or store_chunk changes a field of a descriptor that is
\* already tracked, and add_downloading_file of a tracked hash changes neither
\* descriptor, bitmap, seed pointer nor the metadata file
C34_DescriptorImmutable ==
    [][/\ \A path \in LocalPaths, cs \in ChunkSizes, saved \in BOOLEAN :
            add_file_to_share(path, cs, saved) =>
               \A h \in DOMAIN file_metadata : file_metadata'[h] = file_metadata[h]
       /\ \A file_meta \in DownloadDescriptors, saved \in BOOLEAN :
            add_downloading_file(file_meta, saved) =>
               /\ \A h \in DOMAIN file_metadata : file_metadata'[h] = file_metadata[h]
               /\ file_meta.hash \in DOMAIN file_metadata =>
                     UNCHANGED <<file_metadata, chunk_tracker, file_locations, metadata_file>>
       /\ \A h \in StoreHashes, i \in 0..MaxChunkIndex, data \in StoreData,
             o \in StoreOutcomes :
            store_chunk_write(h, i, data, o) => file_metadata' = file_metadata
       /\ \A saved \in BOOLEAN :
            store_chunk_commit(saved) => file_metadata' = file_metadata]_vars

\* the fields of an index entry other than its peer set
descriptor_fields(entry) == [f \in (DOMAIN entry) \ {"peers"} |-> entry[f]]

\* C35: first descriptor wins at the tracker - a register that announces a
\* hash the index already holds leaves every descriptor field of the entry
\* (name, size, chunk_count; the entry holds no other) as it was, also when the
\* announced descriptor differs, and the registering peer id is in the entry's
\* peer set afterwards, with the ids that were there before.  last_register
\* holds the payload of the register a step ran, and keeps it until a close
C35_FirstDescriptorWins ==
    [][last_register' # <<>> =>
          LET payload == last_register'[1].payload
          IN  \A k \in DOMAIN payload.files :
                 LET h == payload.files[k].hash
                 IN  h \in DOMAIN file_index =>
                        /\ descriptor_fields(file_index'[h]) = descriptor_fields(file_index[h])
                        /\ file_index'[h].peers = file_index[h].peers \cup {payload.peer_id}]_vars

\* C35: the last register announced an indexed hash under another name; the
\* entry carries the first name and lists the peer
C35_Witness ==
    /\ last_register # <<>>
    /\ \E k \in DOMAIN last_register[1].payload.files :
          LET f == last_register[1].payload.files[k]
          IN  /\ f.hash \in DOMAIN file_index
              /\ f.name # file_index[f.hash].name
              /\ last_register[1].payload.peer_id \in file_index[f.hash].peers
              /\ Cardinality(file_index[f.hash].peers) = 2

\* C36: whenever a chunk request returns a payload, the payload has exactly
\* the number of bytes the header declared, whatever the peer sent after the
\* header; when the header has no chunk_size, or fewer bytes than declared were
\* sent before the connection closed, the request returns None
C36_PayloadHasDeclaredLength ==
    rx.pc = "done" =>
       /\ rx.result # <<>> =>
             /\ rx.declared # <<>>
             /\ Len(rx.result[1]) = rx.declared[1]
       /\ rx.declared = <<>> => rx.result = <<>>
       /\ (rx.declared # <<>> /\ Len(rx.payload) < rx.declared[1]) => rx.result = <<>>

failure_events == {"CONNECTION_TIMEOUT", "REFUSED_UPLOAD", "CORRUPTED_DATA"}

success_events == {"SUCCESSFUL_DOWNLOAD", "VERIFIED_INTEGRITY"}

\* at least one event was recorded for the peer, and all of them are in kinds
only_events(peer_id, kinds) ==
    rep_log[peer_id] # <<>> /\ Range(rep_log[peer_id]) \subseteq kinds

\* C37: misbehaving peers sink in the ordering - after any sequence of
\* recorded events, a peer with only failure events is not ordered ahead of a
\* peer with only success events, in whichever order the two ids are given
C37_FailuresSink ==
    \A bad, good \in RepPeers :
       (only_events(bad, failure_events) /\ only_events(good, success_events)) =>
          \A input \in {<<bad, good>>, <<good, bad>>} :
             get_peers_sorted_by_reputation(reputation, input)[1][1] = good

\* C38: single-peer symmetry - a download of H started by a peer that shares H
\* (complete bitmap and seed pointer) ends as completed, without a
\* request_chunk to any peer and without a reassembly from chunk files
C38_SharedFileShortCircuits ==
    (job.pc = "done" /\ job.seeded) =>
        /\ job.status = "success"
        /\ job.contacted = <<>>

\* C39: a peer advertises a hash to the tracker only when it holds all of it -
\* whenever the tracker lists the downloader as a holder of a hash, the
\* downloader's bitmap for that hash is complete
C39_AdvertisesOnlyCompleteFiles ==
    \A h \in DOMAIN file_index :
       Downloader \in file_index[h].peers => is_download_complete(h)

\* C40: the completed directory holds only verified files - after a download
\* job has ended, in any outcome, every file in the completed directory has
\* the digest the job asked for
C40_CompletedHoldsVerifiedFiles ==
    job.pc = "done" =>
       \A name \in DOMAIN completed :
          verify_file_integrity(<<completed[name]>>, job.file_hash)

====
